---- MODULE Spec2Model ----
(***************************************************************************)
(* Performance budgets of Lighthouse: validation of budget.json, matching  *)
(* of a budget to a page by its robots.txt-style path, and the audits that *)
(* read the validated budgets.                                             *)
(*                                                                         *)
(* A run is one call of one entry point: Init draws the entry point and    *)
(* its arguments, the entry point's action computes what the code returns  *)
(* or throws.  JavaScript strings the code takes apart (paths, URLs) are   *)
(* sequences of one-character strings; strings the code only compares      *)
(* (resource types, metrics, property names) are TLA+ strings; an error    *)
(* message is the sequence of its words.                                   *)
(***************************************************************************)
EXTENDS Integers, Sequences, FiniteSets, TLC

VARIABLES op, args, pc, ret, thrown, heap, retRef, throttlingSettings, performanceAudits,
          configstore, calls

vars == <<op, args, pc, ret, thrown, heap, retRef, throttlingSettings, performanceAudits,
          configstore, calls>>

(***************************************************************************)
(* Bounds of the model.                                                    *)
(***************************************************************************)
MaxPatternLen == 4
MaxUrlLen == 4
MaxBudgets == 2
MaxPageUrlLen == 2
MaxRecords == 2
MaxEntries == 2
MaxCalls == 2

(***************************************************************************)
(* JavaScript values.                                                      *)
(***************************************************************************)
Undefined == [t |-> "undefined"]
Null == [t |-> "null"]
Str(s) == [t |-> "string", s |-> s]
Num(n) == [t |-> "number", n |-> n]
NaN == [t |-> "NaN"]
Infinity == [t |-> "Infinity"]
Bool(b) == [t |-> "boolean", b |-> b]
Arr(items) == [t |-> "array", items |-> items]
Obj(props) == [t |-> "object", props |-> props]
NoError == <<>>

\* obj[k], undefined when obj has no own property k
Get(obj, k) == IF k \in DOMAIN obj.props THEN obj.props[k] ELSE Undefined

\* Object.keys of the rest of a destructuring that takes the properties in taken
RestKeys(obj, taken) == DOMAIN obj.props \ taken

RECURSIVE KeysSeq(_)
\* the property names in keys, as a list
KeysSeq(keys) == IF keys = {} THEN <<>>
                 ELSE LET k == CHOOSE x \in keys : TRUE IN <<k>> \o KeysSeq(keys \ {k})

RECURSIVE JSONClone(_)
\* JSON.parse(JSON.stringify(v)) for v other than undefined: a property whose
\* value is undefined is dropped, undefined in an array and a number that is
\* not finite become null
JSONClone(v) ==
    IF v.t = "object"
    THEN Obj([k \in {x \in DOMAIN v.props : v.props[x] # Undefined} |-> JSONClone(v.props[k])])
    ELSE IF v.t = "array"
    THEN Arr([i \in 1..Len(v.items) |-> JSONClone(v.items[i])])
    ELSE IF v.t \in {"undefined", "NaN", "Infinity"}
    THEN Null
    ELSE v

SeqsUpTo(S, n) == UNION {[1..k -> S] : k \in 0..n}

(***************************************************************************)
(* String.prototype methods used by the code, on sequences of characters.  *)
(***************************************************************************)
startsWith(s, p) == Len(p) <= Len(s) /\ SubSeq(s, 1, Len(p)) = p

endsWith(s, p) == Len(p) <= Len(s) /\ SubSeq(s, Len(s) - Len(p) + 1, Len(s)) = p

includes(s, p) == \E i \in 0..(Len(s) - Len(p)) : SubSeq(s, i + 1, i + Len(p)) = p

\* s.slice(n) for 0 <= n
slice(s, n) == SubSeq(s, n + 1, Len(s))

\* s.slice(0, -1)
sliceLast(s) == SubSeq(s, 1, Len(s) - 1)

\* (s.match(/c/g) || []).length
matchCount(s, c) == Cardinality({i \in 1..Len(s) : s[i] = c})

\* index of the first occurrence of character c in s, 0 when there is none
indexOf(s, c) == IF \E i \in 1..Len(s) : s[i] = c
                 THEN CHOOSE i \in 1..Len(s) : s[i] = c /\ \A j \in 1..(i - 1) : s[j] # c
                 ELSE 0

RECURSIVE split(_, _)
\* s.split(c): the pieces of s between the occurrences of c
split(s, c) == IF indexOf(s, c) = 0
               THEN <<s>>
               ELSE <<SubSeq(s, 1, indexOf(s, c) - 1)>> \o split(slice(s, indexOf(s, c)), c)

(***************************************************************************)
(* new URL(url): a URL is its scheme, its host (empty for a data URL) and   *)
(* the characters after it.  The fragment starts at the first '#', the     *)
(* query at the first '?' before it; the empty path of an http(s) URL is   *)
(* '/', and a query or fragment that is only its delimiter reads as the    *)
(* empty string.                                                           *)
(***************************************************************************)
\* the URL as the string it was given as
Href(url) ==
    IF url.protocol = "data:" THEN <<"data:">> \o url.rest
    ELSE <<url.protocol, "//">> \o url.host \o url.rest

URL(url) ==
    LET hashAt == indexOf(url.rest, "#")
        noHash == IF hashAt = 0 THEN url.rest ELSE SubSeq(url.rest, 1, hashAt - 1)
        frag == IF hashAt = 0 THEN <<>> ELSE slice(url.rest, hashAt - 1)
        queryAt == indexOf(noHash, "?")
        rawPath == IF queryAt = 0 THEN noHash ELSE SubSeq(noHash, 1, queryAt - 1)
        query == IF queryAt = 0 THEN <<>> ELSE slice(noHash, queryAt - 1)
    IN  [protocol |-> url.protocol,
         hostname |-> url.host,
         pathname |-> IF rawPath = <<>> /\ url.protocol \in {"http:", "https:"}
                      THEN <<"/">> ELSE rawPath,
         search |-> IF Len(query) <= 1 THEN <<>> ELSE query,
         hash |-> IF Len(frag) <= 1 THEN <<>> ELSE frag]

(***************************************************************************)
(* Outcome of a call: a returned value or a thrown Error.                  *)
(***************************************************************************)
Return(v) == [threw |-> FALSE, value |-> v]
Throw(m) == [threw |-> TRUE, message |-> m]

(***************************************************************************)
(* Budget.validatePath                                                     *)
(***************************************************************************)
\* mutant: the placement of the dollar sign is not looked at
validatePath_anyPlacement(val) ==
    IF val = Undefined \/ val = Null
    THEN Return(<<"/">>)
    ELSE IF val.t # "string"
    THEN Throw(<<"path", ".", "startsWith", "is", "not", "a", "function">>)
    ELSE LET path == val.s
             isValid == startsWith(path, <<"/">>) /\ matchCount(path, "*") <= 1
                        /\ matchCount(path, "$") <= 1
         IN  IF ~isValid
             THEN Throw(<<"Invalid", "path", "${path}", ".", "'Path'", "should", "be", "specified",
                          "using", "the", "'robots.txt'", "format", ".">>)
             ELSE Return(path)

validatePath(val) ==
    IF val = Undefined \/ val = Null
    THEN Return(<<"/">>)
    ELSE IF val.t # "string"
    THEN Throw(<<"path", ".", "startsWith", "is", "not", "a", "function">>)
    ELSE LET path == val.s
             hasLeadingSlash == startsWith(path, <<"/">>)
             validWildcardQuantity == matchCount(path, "*") <= 1
             validDollarSignQuantity == matchCount(path, "$") <= 1
             validDollarSignPlacement == ~includes(path, <<"$">>) \/ endsWith(path, <<"$">>)
             isValid == hasLeadingSlash /\ validWildcardQuantity
                        /\ validDollarSignQuantity /\ validDollarSignPlacement
         IN  IF ~isValid
             THEN Throw(<<"Invalid", "path", "${path}", ".", "'Path'", "should", "be", "specified",
                          "using", "the", "'robots.txt'", "format", ".">>)
             ELSE Return(path)

(***************************************************************************)
(* Budget.urlMatchesPattern.  The four cases of the code, by the special   *)
(* characters of the pattern, then the function itself.                    *)
(***************************************************************************)
\* mutant: the pattern may occur anywhere in the URL path
matchCase1_anywhere(urlPath, pattern) == includes(urlPath, pattern)

\* Case #1: no special characters
matchCase1(urlPath, pattern) == startsWith(urlPath, pattern)

\* mutant: the anchor is left on the pattern's end and only a prefix is asked for
matchCase2_prefix(urlPath, pattern) == startsWith(urlPath, sliceLast(pattern))

\* Case #2: $ only
matchCase2(urlPath, pattern) == urlPath = sliceLast(pattern)

\* mutant: the text after the wildcard is looked for in the whole URL path
matchCase3_overlap(urlPath, pattern) ==
    LET beforeWildcard == split(pattern, "*")[1]
        afterWildcard == split(pattern, "*")[2]
    IN  startsWith(urlPath, beforeWildcard) /\ includes(urlPath, afterWildcard)

\* mutant: the wildcard has to stand for at least one character
matchCase3_nonEmpty(urlPath, pattern) ==
    LET beforeWildcard == split(pattern, "*")[1]
        afterWildcard == split(pattern, "*")[2]
        remainingUrl == slice(urlPath, Len(beforeWildcard) + 1)
    IN  /\ startsWith(urlPath, beforeWildcard)
        /\ Len(urlPath) > Len(beforeWildcard)
        /\ includes(remainingUrl, afterWildcard)

\* Case #3: * only
matchCase3(urlPath, pattern) ==
    LET beforeWildcard == split(pattern, "*")[1]
        afterWildcard == split(pattern, "*")[2]
        remainingUrl == slice(urlPath, Len(beforeWildcard))
    IN  startsWith(urlPath, beforeWildcard) /\ includes(remainingUrl, afterWildcard)

\* mutant: the anchor is forgotten, the text after the wildcard may end anywhere
matchCase4_unanchored(urlPath, pattern) ==
    LET beforeWildcard == split(pattern, "*")[1]
        afterWildcard == split(pattern, "*")[2]
    IN  startsWith(urlPath, beforeWildcard) /\ includes(urlPath, sliceLast(afterWildcard))

\* Case #4: $ and *
matchCase4(urlPath, pattern) ==
    LET beforeWildcard == split(pattern, "*")[1]
        afterWildcard == split(pattern, "*")[2]
    IN  startsWith(urlPath, beforeWildcard) /\ endsWith(urlPath, sliceLast(afterWildcard))

urlMatchesPattern(url, pattern) ==
    LET urlObj == URL(url)
        urlPath == urlObj.pathname \o urlObj.search
        hasWildcard == includes(pattern, <<"*">>)
        hasDollarSign == includes(pattern, <<"$">>)
    IN  IF ~hasWildcard /\ ~hasDollarSign
        THEN matchCase1(urlPath, pattern)
        ELSE IF ~hasWildcard /\ hasDollarSign
        THEN matchCase2(urlPath, pattern)
        ELSE IF hasWildcard /\ ~hasDollarSign
        THEN matchCase3(urlPath, pattern)
        ELSE IF hasWildcard /\ hasDollarSign
        THEN matchCase4(urlPath, pattern)
        ELSE FALSE

(***************************************************************************)
(* config/budget.js: validation of budget.json                             *)
(***************************************************************************)
isObjectOfUnknownProperties(val) == val.t = "object"

isArrayOfUnknownObjects(arr) ==
    arr.t = "array" /\ \A i \in 1..Len(arr.items) : isObjectOfUnknownProperties(arr.items[i])

\* mutant: the value is coerced to a number before it is tested
isNumber_coercing(val) == val.t \in {"number", "Infinity", "null", "boolean"}

\* NaN is not a number, +-Infinity (one value here, the sign plays no part) is
isNumber(val) == val.t \in {"number", "Infinity"}

\* the outcome of Budget.assertNoExcessProperties when it throws
excessProperties(invalidKeys, objectName) ==
    Throw(objectName \o <<"has", "unrecognized", "properties", ":", "[">>
          \o KeysSeq(invalidKeys) \o <<"]">>)

\* the outcome of arr.map(f) given the outcome of f on each element: the first
\* throw, or the list of the returned values
mapOutcomes(outs) ==
    IF \E i \in 1..Len(outs) : outs[i].threw
    THEN outs[CHOOSE i \in 1..Len(outs) : outs[i].threw /\ \A j \in 1..(i - 1) : ~outs[j].threw]
    ELSE Return([i \in 1..Len(outs) |-> outs[i].value])

\* mutant: a string is only compared with the one right before it
assertNoDuplicateStrings_adjacent(strings, arrayName) ==
    LET dup(j) == j > 1 /\ strings[j - 1] = strings[j]
    IN  IF \E j \in 1..Len(strings) : dup(j)
        THEN LET j == CHOOSE x \in 1..Len(strings) : dup(x) /\ \A y \in 1..(x - 1) : ~dup(y)
             IN  arrayName \o <<"has", "duplicate", "entry", "of", "type", strings[j]>>
        ELSE NoError

\* Budget.assertNoDuplicateStrings: the message thrown for the first string that
\* was found before, NoError when there is none
assertNoDuplicateStrings(strings, arrayName) ==
    LET dup(j) == \E i \in 1..(j - 1) : strings[i] = strings[j]
    IN  IF \E j \in 1..Len(strings) : dup(j)
        THEN LET j == CHOOSE x \in 1..Len(strings) : dup(x) /\ \A y \in 1..(x - 1) : ~dup(y)
             IN  arrayName \o <<"has", "duplicate", "entry", "of", "type", strings[j]>>
        ELSE NoError

validResourceTypes ==
    {"total", "document", "script", "stylesheet", "image", "media", "font", "other",
     "third-party"}

validateResourceBudget(resourceBudget) ==
    LET resourceType == Get(resourceBudget, "resourceType")
        budget == Get(resourceBudget, "budget")
        invalidRest == RestKeys(resourceBudget, {"resourceType", "budget"})
    IN  IF invalidRest # {}
        THEN excessProperties(invalidRest, <<"Resource", "Budget">>)
        ELSE IF ~(resourceType.t = "string" /\ resourceType.s \in validResourceTypes)
        THEN Throw(<<"Invalid", "resource", "type", ":", "${resourceType}", ".",
                     "Valid", "resource", "types", "are", ":", "${validResourceTypes}">>)
        ELSE IF ~isNumber(budget)
        THEN Throw(<<"Invalid", "budget", ":", "${budget}">>)
        ELSE Return([resourceType |-> resourceType.s, budget |-> budget])

validTimingMetrics ==
    {"first-contentful-paint", "first-cpu-idle", "interactive", "first-meaningful-paint",
     "max-potential-fid"}

validateTimingBudget(timingBudget) ==
    LET metric == Get(timingBudget, "metric")
        budget == Get(timingBudget, "budget")
        tolerance == Get(timingBudget, "tolerance")
        invalidRest == RestKeys(timingBudget, {"metric", "budget", "tolerance"})
    IN  IF invalidRest # {}
        THEN excessProperties(invalidRest, <<"Timing", "Budget">>)
        ELSE IF ~(metric.t = "string" /\ metric.s \in validTimingMetrics)
        THEN Throw(<<"Invalid", "timing", "metric", ":", "${metric}", ".",
                     "Valid", "timing", "metrics", "are", ":", "${validTimingMetrics}">>)
        ELSE IF ~isNumber(budget)
        THEN Throw(<<"Invalid", "budget", ":", "${budget}">>)
        ELSE IF tolerance # Undefined /\ ~isNumber(tolerance)
        THEN Throw(<<"Invalid", "tolerance", ":", "${tolerance}">>)
        ELSE Return([metric |-> metric.s, budget |-> budget, tolerance |-> tolerance])

\* one of the three lists of a budget: absent, or validated entry by entry and
\* then checked for duplicates of the property named by key
validatedList(list, key, listName) ==
    IF isArrayOfUnknownObjects(list)
    THEN LET mapped == mapOutcomes([i \in 1..Len(list.items) |->
                                       IF key = "metric"
                                       THEN validateTimingBudget(list.items[i])
                                       ELSE validateResourceBudget(list.items[i])])
         IN  IF mapped.threw
             THEN mapped
             ELSE LET dup == assertNoDuplicateStrings(
                                [i \in 1..Len(mapped.value) |-> mapped.value[i][key]],
                                <<"budgets", "[", "${index}", "]", ".", listName>>)
                  IN  IF dup # NoError THEN Throw(dup) ELSE mapped
    ELSE IF list # Undefined
    THEN Throw(<<"Invalid", listName, "entry", "in", "budget", "at", "index", "${index}">>)
    ELSE Return(Undefined)

\* the callback of budgetJson.map in Budget.initializeBudget
initializeOneBudget(b) ==
    LET invalidRest == RestKeys(b, {"path", "resourceSizes", "resourceCounts", "timings"})
        path == validatePath(Get(b, "path"))
        resourceSizes == validatedList(Get(b, "resourceSizes"), "resourceType", "resourceSizes")
        resourceCounts == validatedList(Get(b, "resourceCounts"), "resourceType", "resourceCounts")
        timings == validatedList(Get(b, "timings"), "metric", "timings")
    IN  IF invalidRest # {} THEN excessProperties(invalidRest, <<"Budget">>)
        ELSE IF path.threw THEN path
        ELSE IF resourceSizes.threw THEN resourceSizes
        ELSE IF resourceCounts.threw THEN resourceCounts
        ELSE IF timings.threw THEN timings
        ELSE LET budget == [path |-> path.value,
                            resourceSizes |-> resourceSizes.value,
                            resourceCounts |-> resourceCounts.value,
                            timings |-> timings.value]
                 assigned == {"path"} \cup {k \in {"resourceSizes", "resourceCounts", "timings"} :
                                               Get(b, k) # Undefined}
             IN  Return([k \in assigned |-> budget[k]])

initializeBudget(budgetJson) ==
    IF budgetJson = Undefined
    THEN Throw(<<"Unexpected", "token", "u", "in", "JSON", "at", "position", "0">>)
    ELSE LET cloned == JSONClone(budgetJson)
         IN  IF ~isArrayOfUnknownObjects(cloned)
             THEN Throw(<<"Budget", "file", "is", "not", "defined", "as", "an", "array",
                          "of", "budgets", ".">>)
             ELSE mapOutcomes([i \in 1..Len(cloned.items) |->
                                  initializeOneBudget(cloned.items[i])])

(***************************************************************************)
(* The objects of a call of Budget.initializeBudget.  An object or array   *)
(* is a cell of the heap, named by the tree it was created in (the         *)
(* caller's input, the clone of line 234, the budgets built by the map     *)
(* callback) and by its path from the root of that tree; a cell holds its  *)
(* primitive properties and references to the cells of the others.        *)
(***************************************************************************)
Step(k, i) == [k |-> k, i |-> i]

Ref(space, path) == [t |-> "ref", space |-> space, path |-> path]

EmptyHeap == [id \in {} |-> Undefined]

RECURSIVE NodesOf(_, _)
\* the paths of the objects and arrays of the value v, which is at path
NodesOf(v, path) ==
    IF v.t = "object"
    THEN {path} \cup UNION {NodesOf(v.props[k], Append(path, Step(k, 0))) : k \in DOMAIN v.props}
    ELSE IF v.t = "array"
    THEN {path} \cup UNION {NodesOf(v.items[i], Append(path, Step("", i))) :
                              i \in 1..Len(v.items)}
    ELSE {}

RECURSIVE At(_, _)
\* the value at path in v
At(v, path) ==
    IF path = <<>> THEN v
    ELSE IF Head(path).i = 0 THEN At(v.props[Head(path).k], Tail(path))
    ELSE At(v.items[Head(path).i], Tail(path))

\* what a property holds: the primitive, or the reference to the object
Held(v, space, path) == IF v.t \in {"object", "array"} THEN Ref(space, path) ELSE v

\* the cell of the object or array v, which is at path of the tree of space
Cell(v, space, path) ==
    IF v.t = "object"
    THEN Obj([k \in DOMAIN v.props |-> Held(v.props[k], space, Append(path, Step(k, 0)))])
    ELSE Arr([i \in 1..Len(v.items) |-> Held(v.items[i], space, Append(path, Step("", i)))])

\* the cells of the objects and arrays of the value v, created in space
Allocate(v, space) ==
    [id \in {Ref(space, p) : p \in NodesOf(v, <<>>)} |-> Cell(At(v, id.path), space, id.path)]

\* the budgets the map callback returns, as the objects they are
budgetsAsObjects(budgets) ==
    Arr([i \in 1..Len(budgets) |->
            Obj([k \in DOMAIN budgets[i] |->
                    IF k = "path" THEN Str(budgets[i][k])
                    ELSE IF k = "timings"
                    THEN Arr([j \in 1..Len(budgets[i][k]) |->
                                 Obj([metric |-> Str(budgets[i][k][j].metric),
                                      budget |-> budgets[i][k][j].budget,
                                      tolerance |-> budgets[i][k][j].tolerance])])
                    ELSE Arr([j \in 1..Len(budgets[i][k]) |->
                                 Obj([resourceType |-> Str(budgets[i][k][j].resourceType),
                                      budget |-> budgets[i][k][j].budget])])])])

\* mutant: no clone, and the callback validates in place (budget = b): the
\* validated properties are assigned to the caller's budget objects, which
\* are the items of the returned array
initializeBudget_heap_inPlace(budgetJson, before) ==
    LET result == initializeBudget(budgetJson)
    IN  IF result.threw THEN [heap |-> before, retRef |-> Undefined]
        ELSE LET built == Allocate(budgetsAsObjects(result.value), "budgets")
                 mine(i) == Ref("input", <<Step("", i)>>)
                 redirected(cell) ==
                     IF cell.t = "array"
                     THEN Arr([i \in 1..Len(cell.items) |-> mine(i)])
                     ELSE cell
             IN  [heap |-> [id \in DOMAIN before \cup DOMAIN built |->
                               IF \E i \in 1..Len(result.value) : id = mine(i)
                               THEN built[Ref("budgets", id.path)]
                               ELSE IF id \in DOMAIN before THEN before[id]
                               ELSE IF id.path = <<>> THEN redirected(built[id])
                               ELSE built[id]],
                  retRef |-> Ref("budgets", <<>>)]

\* the heap after Budget.initializeBudget(budgetJson), and the reference it
\* returns: line 234 builds the clone, the map of line 239 a new array,
\* line 241 a new object per budget, and the validators of lines 249, 257
\* and 265 new arrays of new entries; every assignment of lines 246 to 265
\* is to a property of the new object `budget`.  Objects that no reference
\* of the caller reaches after a throw are left out.
initializeBudget_heap(budgetJson, before) ==
    LET result == initializeBudget(budgetJson)
        cloned == IF budgetJson = Undefined THEN EmptyHeap
                  ELSE Allocate(JSONClone(budgetJson), "clone")
    IN  IF result.threw THEN [heap |-> before @@ cloned, retRef |-> Undefined]
        ELSE [heap |-> before @@ cloned @@ Allocate(budgetsAsObjects(result.value), "budgets"),
              retRef |-> Ref("budgets", <<>>)]

(***************************************************************************)
(* config/budgets.js: the Budgets class                                    *)
(***************************************************************************)
RECURSIVE isNaN(_)
\* the global isNaN, which converts its argument to a number first; the
\* strings that convert to a number are those of NumericStrings
isNaN(val) ==
    IF val.t \in {"number", "Infinity", "null", "boolean"} THEN FALSE
    ELSE IF val.t = "string" THEN val.s \notin {"", "100", "5000"}
    ELSE IF val.t = "array"
    THEN IF Len(val.items) = 0 THEN FALSE
         ELSE IF Len(val.items) = 1
         THEN val.items[1].t \notin {"null", "undefined"} /\ isNaN(val.items[1])
         ELSE TRUE
    ELSE TRUE

\* the outcome of Budgets.assertNoExcessProperties when it throws
Budgets_excessProperties(invalidKeys, objectName) ==
    Throw(objectName \o <<"has", "unrecognized", "properties", ":", "[">>
          \o KeysSeq(invalidKeys) \o <<"]">>)

Budgets_validateResourceBudget(resourceBudget) ==
    LET resourceType == Get(resourceBudget, "resourceType")
        budget == Get(resourceBudget, "budget")
        invalidRest == RestKeys(resourceBudget, {"resourceType", "budget"})
    IN  IF invalidRest # {}
        THEN Budgets_excessProperties(invalidRest, <<"Resource", "Budget">>)
        ELSE IF ~(resourceType.t = "string" /\ resourceType.s \in validResourceTypes)
        THEN Throw(<<"Invalid", "resource", "type", ":", "${resourceBudget.resourceType}", ".",
                     "Valid", "resource", "types", "are", ":", "${validResourceTypes}">>)
        ELSE IF isNaN(budget)
        THEN Throw(<<"Invalid", "budget", ":", "$", "{", "resourceBudget.budget", "}">>)
        ELSE Return([resourceType |-> resourceType, budget |-> budget])

Budgets_validTimingMetrics ==
    {"first-contentful-paint", "first-cpu-idle", "time-to-interactive",
     "first-meaningful-paint", "estimated-input-latency"}

Budgets_validateTimingBudget(timingBudget) ==
    LET metric == Get(timingBudget, "metric")
        budget == Get(timingBudget, "budget")
        tolerance == Get(timingBudget, "tolerance")
        invalidRest == RestKeys(timingBudget, {"metric", "budget", "tolerance"})
    IN  IF invalidRest # {}
        THEN Budgets_excessProperties(invalidRest, <<"Timing", "Budget">>)
        ELSE IF ~(metric.t = "string" /\ metric.s \in Budgets_validTimingMetrics)
        THEN Throw(<<"Invalid", "timing", "metric", ":", "${timingBudget.metric}", ".",
                     "Valid", "timing", "metrics", "are", ":", "${validTimingMetrics}">>)
        ELSE IF isNaN(budget)
        THEN Throw(<<"Invalid", "budget", ":", "$", "{", "timingBudget.budget", "}">>)
        ELSE IF tolerance # Undefined /\ isNaN(tolerance)
        THEN Throw(<<"Invalid", "tolerance", ":", "$", "{", "timingBudget.tolerance", "}">>)
        ELSE Return([metric |-> metric, budget |-> budget, tolerance |-> tolerance])

\* b[listName].map(validate) when b[listName] is not undefined
Budgets_mapped(list, listName) ==
    IF list = Undefined THEN Return(Undefined)
    ELSE IF list.t # "array"
    THEN Throw(<<"b", ".", "${list}", ".", "map", "is", "not", "a", "function">>)
    ELSE IF \E i \in 1..Len(list.items) : list.items[i].t # "object"
    THEN Throw(<<"Cannot", "destructure", "${resourceBudget}">>)
    ELSE mapOutcomes([i \in 1..Len(list.items) |->
                         IF listName = "timings"
                         THEN Budgets_validateTimingBudget(list.items[i])
                         ELSE Budgets_validateResourceBudget(list.items[i])])

\* the callback of budgetsJSON.budgets.forEach: what is pushed to this.budgets
Budgets_forEachBudget(b) ==
    LET invalidRest == RestKeys(b, {"resourceSizes", "resourceCounts", "timings"})
        resourceSizes == Budgets_mapped(Get(b, "resourceSizes"), "resourceSizes")
        resourceCounts == Budgets_mapped(Get(b, "resourceCounts"), "resourceCounts")
        timings == Budgets_mapped(Get(b, "timings"), "timings")
    IN  IF invalidRest # {} THEN Budgets_excessProperties(invalidRest, <<"Budget">>)
        ELSE IF resourceSizes.threw THEN resourceSizes
        ELSE IF resourceCounts.threw THEN resourceCounts
        ELSE IF timings.threw THEN timings
        ELSE Return([resourceSizes |-> Get(b, "resourceSizes"),
                     resourceCounts |-> Get(b, "resourceCounts"),
                     timings |-> Get(b, "timings")])

\* new Budgets(budgetsJSON): this.budgets, or the error of the first budget
\* that fails
Budgets_constructor(budgetsJSON) ==
    LET budgets == Get(budgetsJSON, "budgets")
    IN  IF budgets.t # "array"
        THEN Throw(<<"budgetsJSON", ".", "budgets", ".", "forEach", "is", "not", "a",
                     "function">>)
        ELSE IF \E i \in 1..Len(budgets.items) : budgets.items[i].t # "object"
        THEN Throw(<<"Cannot", "destructure", "${b}">>)
        ELSE mapOutcomes([i \in 1..Len(budgets.items) |-> Budgets_forEachBudget(budgets.items[i])])

(***************************************************************************)
(* computed/resource-summary.js                                            *)
(***************************************************************************)
determineResourceType(record) ==
    IF record.resourceType = Undefined \/ record.resourceType = Str("") THEN "other"
    ELSE IF record.resourceType = Str("Stylesheet") THEN "stylesheet"
    ELSE IF record.resourceType = Str("Image") THEN "image"
    ELSE IF record.resourceType = Str("Media") THEN "media"
    ELSE IF record.resourceType = Str("Font") THEN "font"
    ELSE IF record.resourceType = Str("Script") THEN "script"
    ELSE IF record.resourceType = Str("Document") THEN "document"
    ELSE "other"

\* Object.keys of the summary, in the order summarize creates them
summaryKeys == <<"stylesheet", "image", "media", "font", "script", "document", "other", "total">>

RECURSIVE summarizeLoop(_, _)
\* the loop of ResourceSummary.summarize over the records still to visit
summarizeLoop(resourceSummary, networkRecords) ==
    IF networkRecords = <<>> THEN resourceSummary
    ELSE LET record == Head(networkRecords)
             type == determineResourceType(record)
         IN  IF type = "other" /\ endsWith(Href(record.url), <<"/", "favicon.ico">>)
             THEN summarizeLoop(resourceSummary, Tail(networkRecords))
             ELSE summarizeLoop([resourceSummary EXCEPT
                                    ![type].count = @ + 1,
                                    ![type].size = @ + record.transferSize,
                                    !["total"].count = @ + 1,
                                    !["total"].size = @ + record.transferSize],
                                Tail(networkRecords))

\* mutant: every record of a '/favicon.ico' is skipped, whatever its type
summarize_anyFaviconSkipped(networkRecords) ==
    LET isNotFavicon(record) == ~endsWith(Href(record.url), <<"/", "favicon.ico">>)
    IN  summarizeLoop([type \in {summaryKeys[i] : i \in 1..Len(summaryKeys)} |->
                          [count |-> 0, size |-> 0]],
                      SelectSeq(networkRecords, isNotFavicon))

\* mutant: the total counts every record, the skipped ones included
summarize_totalOfAll(networkRecords) ==
    [summarizeLoop([type \in {summaryKeys[i] : i \in 1..Len(summaryKeys)} |->
                       [count |-> 0, size |-> 0]],
                   networkRecords)
        EXCEPT !["total"].count = Len(networkRecords)]

summarize(networkRecords) ==
    summarizeLoop([type \in {summaryKeys[i] : i \in 1..Len(summaryKeys)} |->
                      [count |-> 0, size |-> 0]],
                  networkRecords)

(***************************************************************************)
(* audits/resource-budget.js                                               *)
(***************************************************************************)
RECURSIVE sortDescending(_)
\* Array.prototype.sort((a, b) => b.key - a.key) on a list of [key, row]: a
\* stable sort by descending key
sortDescending(pairs) ==
    IF pairs = <<>> THEN <<>>
    ELSE LET front == sortDescending(SubSeq(pairs, 1, Len(pairs) - 1))
             last == pairs[Len(pairs)]
             pos == Cardinality({i \in 1..Len(front) : front[i].key >= last.key})
         IN  SubSeq(front, 1, pos) \o <<last>> \o SubSeq(front, pos + 1, Len(front))

\* the rows of a sorted list of [key, row]
rowsOf(pairs) == [i \in 1..Len(pairs) |-> pairs[i].row]

\* arr.find(b => b.resourceType === type), undefined when there is none
findBudget(arr, type) ==
    IF \E i \in 1..Len(arr) : arr[i].resourceType = type
    THEN arr[CHOOSE i \in 1..Len(arr) :
                /\ arr[i].resourceType = type
                /\ \A j \in 1..(i - 1) : arr[j].resourceType # type]
    ELSE Undefined

tableHeadings(budget) ==
    IF budget # Undefined
    THEN <<"label", "requestCount", "size", "countOverBudget", "sizeOverBudget">>
    ELSE <<"label", "requestCount", "size">>

rowLabel(resourceType) ==
    [total |-> "Total", document |-> "Document", script |-> "Script",
     stylesheet |-> "Stylesheet", image |-> "Image", media |-> "Media", font |-> "Font",
     other |-> "Other", third_party |-> "Third-party"]
        [IF resourceType = "third-party" THEN "third_party" ELSE resourceType]

defaultTable(summary, types) ==
    LET rows == [i \in 1..Len(types) |->
                    [resourceType |-> types[i],
                     label |-> rowLabel(types[i]),
                     requestCount |-> summary[types[i]].count,
                     size |-> summary[types[i]].size]]
        isThirdParty(r) == r.resourceType = "third-party"
        isNotThirdParty(r) == r.resourceType # "third-party"
        thirdPartyRow == IF SelectSeq(rows, isThirdParty) = <<>> THEN <<>>
                         ELSE <<Head(SelectSeq(rows, isThirdParty))>>
        kept == SelectSeq(rows, isNotThirdParty)
        otherRows == rowsOf(sortDescending([i \in 1..Len(kept) |->
                                               [key |-> kept[i].size, row |-> kept[i]]]))
    IN  otherRows \o thirdPartyRow

budgetTable(budget, summary, resourceTypes) ==
    LET hasSizes == "resourceSizes" \in DOMAIN budget
        hasCounts == "resourceCounts" \in DOMAIN budget
        sizeBudget(type) == IF hasSizes THEN findBudget(budget.resourceSizes, type)
                            ELSE Undefined
        countBudget(type) == IF hasCounts THEN findBudget(budget.resourceCounts, type)
                             ELSE Undefined
        rowOf(type) ==
            LET requestCount == summary[type].count
                size == summary[type].size
            IN  [resourceType |-> type,
                 label |-> rowLabel(type),
                 requestCount |-> requestCount,
                 size |-> size,
                 countOverBudget |->
                     IF countBudget(type) # Undefined /\ requestCount > countBudget(type).budget.n
                     THEN [requests |-> requestCount - countBudget(type).budget.n]
                     ELSE Undefined,
                 sizeOverBudget |->
                     IF sizeBudget(type) # Undefined /\ size > sizeBudget(type).budget.n * 1024
                     THEN Num(size - sizeBudget(type).budget.n * 1024)
                     ELSE Undefined]
        rows == [i \in 1..Len(resourceTypes) |-> rowOf(resourceTypes[i])]
        hasBudget(row) == \/ sizeBudget(row.resourceType) # Undefined
                          \/ countBudget(row.resourceType) # Undefined
        kept == SelectSeq(rows, hasBudget)
    IN  rowsOf(sortDescending([i \in 1..Len(kept) |->
                                 [key |-> IF kept[i].sizeOverBudget = Undefined THEN 0
                                          ELSE kept[i].sizeOverBudget.n,
                                  row |-> kept[i]]]))

\* ResourceBudget.audit: settingsBudgets is context.settings.budgets
ResourceBudget_audit(networkRecords, settingsBudgets) ==
    LET summary == summarize(networkRecords)
        budget == IF settingsBudgets # Null /\ settingsBudgets # Undefined
                  THEN IF Len(settingsBudgets.items) >= 1 THEN settingsBudgets.items[1]
                       ELSE Undefined
                  ELSE Undefined
        headings == tableHeadings(budget)
        tableItems == IF budget # Undefined THEN budgetTable(budget, summary, summaryKeys)
                      ELSE defaultTable(summary, summaryKeys)
    IN  [details |-> [headings |-> headings, items |-> tableItems], score |-> 1]

(***************************************************************************)
(* audits/resource-summary.js: the ResourceSummary audit                   *)
(***************************************************************************)
strMappings(type) ==
    [total |-> "Total", document |-> "Document", script |-> "Script",
     stylesheet |-> "Stylesheet", image |-> "Image", media |-> "Media", font |-> "Font",
     other |-> "Other", third_party |-> "Third-party"]
        [IF type = "third-party" THEN "third_party" ELSE type]

\* ResourceSummary.audit: mainResource.url is passed to summarize, which
\* takes the network records only
ResourceSummaryAudit_audit(networkRecords, mainResource) ==
    LET resourceSummary == summarize(networkRecords)
        headings == <<"label", "count", "size">>
        rows == [i \in 1..Len(summaryKeys) |->
                    [label |-> strMappings(summaryKeys[i]),
                     count |-> resourceSummary[summaryKeys[i]].count,
                     size |-> resourceSummary[summaryKeys[i]].size]]
        tableContents == rowsOf(sortDescending([i \in 1..Len(rows) |->
                                                  [key |-> rows[i].size, row |-> rows[i]]]))
    IN  [details |-> [headings |-> headings, items |-> tableContents],
         score |-> 1,
         displayValue |-> [requestCount |-> resourceSummary.total.count,
                           byteCount |-> resourceSummary.total.size]]

(***************************************************************************)
(* computed/third-party-summary.js                                         *)
(***************************************************************************)
\* Budget.getMatchingBudget: the last budget, in the order of declaration,
\* whose path matches the URL, undefined when there is none
getMatchingBudget(budgets, url) ==
    IF budgets = Null \/ budgets = Undefined THEN Undefined
    ELSE LET matching == {i \in 1..Len(budgets.items) :
                             urlMatchesPattern(url, budgets.items[i].path)}
         IN  IF matching = {} THEN Undefined
             ELSE budgets.items[CHOOSE i \in matching : \A j \in matching : j <= i]

RECURSIVE join(_, _)
\* pieces.join(c)
join(pieces, c) ==
    IF pieces = <<>> THEN <<>>
    ELSE IF Len(pieces) = 1 THEN pieces[1]
    ELSE pieces[1] \o <<c>> \o join(Tail(pieces), c)

\* Util.getRootDomain for hostnames under a one-label public suffix: the last
\* two labels of the URL's hostname
getRootDomain(url) ==
    LET labels == split(URL(url).hostname, ".")
    IN  join(SubSeq(labels, IF Len(labels) > 2 THEN Len(labels) - 1 ELSE 1, Len(labels)), ".")

RECURSIVE thirdPartyLoop(_, _, _)
\* the forEach of ThirdPartySummary.summarize over the records still to visit
thirdPartyLoop(acc, networkRecords, firstPartyHosts) ==
    IF networkRecords = <<>> THEN acc
    ELSE LET record == Head(networkRecords)
             hostname == URL(record.url).hostname
             matches(hostExp) == IF startsWith(hostExp, <<"*", ".">>)
                                 THEN endsWith(hostname, slice(hostExp, 2))
                                 ELSE hostname = hostExp
             isFirstParty == \E i \in 1..Len(firstPartyHosts) :
                                matches(firstPartyHosts[i]) /\ firstPartyHosts[i] # <<>>
         IN  IF hostname = <<>>
             THEN thirdPartyLoop(acc, Tail(networkRecords), firstPartyHosts)
             ELSE IF ~isFirstParty
             THEN thirdPartyLoop([size |-> acc.size + record.transferSize,
                                  count |-> acc.count + 1],
                                 Tail(networkRecords), firstPartyHosts)
             ELSE thirdPartyLoop(acc, Tail(networkRecords), firstPartyHosts)

ThirdPartySummary_summarize(mainResource, networkRecords, settingsBudgets) ==
    LET budget == getMatchingBudget(settingsBudgets, mainResource.url)
        firstPartyHosts ==
            IF budget # Undefined /\ "options" \in DOMAIN budget
               /\ "firstPartyHostnames" \in DOMAIN budget.options
            THEN budget.options.firstPartyHostnames
            ELSE <<(<<"*", ".">> \o getRootDomain(mainResource.url))>>
    IN  thirdPartyLoop([size |-> 0, count |-> 0], networkRecords, firstPartyHosts)

(***************************************************************************)
(* audits/resource-summary.js: the LightWallet audit                       *)
(***************************************************************************)
LightWallet_determineResourceType(record) ==
    IF record.resourceType = Str("Stylesheet") THEN "stylesheet"
    ELSE IF record.resourceType = Str("Image") THEN "image"
    ELSE IF record.resourceType = Str("Media") THEN "media"
    ELSE IF record.resourceType = Str("Font") THEN "font"
    ELSE IF record.resourceType = Str("Script") THEN "script"
    ELSE IF record.resourceType = Str("Document") THEN "document"
    ELSE "other"

\* URL.rootDomainsMatch: the two URLs have the same root domain
rootDomainsMatch(urlA, urlB) == getRootDomain(urlA) = getRootDomain(urlB)

\* a Map without entries
EmptyMap == [k \in {} |-> 0]

\* summary.get(key) || 0
getOrZero(summary, key) == IF key \in DOMAIN summary THEN summary[key] ELSE 0

\* the Map after summary.set(key, value)
set(summary, key, value) ==
    [k \in DOMAIN summary \cup {key} |-> IF k = key THEN value ELSE summary[k]]

RECURSIVE pageWeightLoop(_, _, _)
\* the forEach of pageWeightByResourceType over the records still to visit
pageWeightLoop(summary, networkRecords, mainResourceURL) ==
    IF networkRecords = <<>> THEN summary
    ELSE LET record == Head(networkRecords)
             type == LightWallet_determineResourceType(record)
             withType == set(summary, type, getOrZero(summary, type) + record.transferSize)
             withTotal == set(withType, "total",
                              getOrZero(withType, "total") + record.transferSize)
             withThirdParty ==
                 IF ~rootDomainsMatch(record.url, mainResourceURL)
                 THEN set(withTotal, "thirdParty",
                          getOrZero(withTotal, "thirdParty") + record.transferSize)
                 ELSE withTotal
         IN  pageWeightLoop(withThirdParty, Tail(networkRecords), mainResourceURL)

pageWeightByResourceType(networkRecords, mainResourceURL) ==
    pageWeightLoop(EmptyMap, networkRecords, mainResourceURL)

\* mutant: a page weight equal to its budget fails
pageWeightAnalysis_equalFails(pageWeightBudgets, bytesSummary) ==
    LET rowOf(pageWeightBudget) ==
            LET budget == pageWeightBudget.budget * 1024
                actual == getOrZero(bytesSummary, pageWeightBudget.resourceType)
            IN  [id |-> pageWeightBudget.resourceType,
                 label |-> pageWeightBudget.resourceType,
                 budget |-> budget,
                 actual |-> actual,
                 difference |-> actual - budget,
                 score |-> IF actual >= budget THEN "fail" ELSE "pass"]
    IN  rowsOf(sortDescending([i \in 1..Len(pageWeightBudgets) |->
                                 [key |-> rowOf(pageWeightBudgets[i]).difference,
                                  row |-> rowOf(pageWeightBudgets[i])]]))

\* LightWallet.pageWeightAnalysis; `pageWeightBudget.budget || 0` is the
\* budget itself for the numbers of a validated budget
pageWeightAnalysis(pageWeightBudgets, bytesSummary) ==
    LET rowOf(pageWeightBudget) ==
            LET budget == pageWeightBudget.budget * 1024
                actual == getOrZero(bytesSummary, pageWeightBudget.resourceType)
            IN  [id |-> pageWeightBudget.resourceType,
                 label |-> pageWeightBudget.resourceType,
                 budget |-> budget,
                 actual |-> actual,
                 difference |-> actual - budget,
                 score |-> IF actual > budget THEN "fail" ELSE "pass"]
    IN  rowsOf(sortDescending([i \in 1..Len(pageWeightBudgets) |->
                                 [key |-> rowOf(pageWeightBudgets[i]).difference,
                                  row |-> rowOf(pageWeightBudgets[i])]]))

\* the id and the label of the metrics auditTimingMetric knows
timingMetricIds ==
    [firstContentfulPaint |-> [id |-> "fcp", label |-> "First Contentful Paint"],
     firstCpuIdle |-> [id |-> "fci", label |-> "First CPU Idle"],
     timeToInteractive |-> [id |-> "tti", label |-> "Time to Interactive"],
     firstMeaningfulPaint |-> [id |-> "fmp", label |-> "First Meaningful Paint"]]

\* timingBudget.tolerance || 0
toleranceOrZero(timingBudget) ==
    IF "tolerance" \in DOMAIN timingBudget THEN timingBudget.tolerance ELSE 0

\* mutant: a measurement equal to its budget passes
auditTimingMetric_equalPasses(timingBudget, timingMeasurement) ==
    IF timingBudget.metric \notin DOMAIN timingMetricIds
    THEN Throw(<<"Timing", "metric", "not", "found">>)
    ELSE LET score == IF timingMeasurement <= timingBudget.budget THEN "pass"
                      ELSE IF timingMeasurement
                                  < timingBudget.budget + toleranceOrZero(timingBudget)
                      THEN "average"
                      ELSE "fail"
             result == [id |-> timingMetricIds[timingBudget.metric].id,
                        label |-> timingMetricIds[timingBudget.metric].label,
                        budget |-> timingBudget.budget,
                        actual |-> timingMeasurement,
                        difference |-> timingMeasurement - timingBudget.budget,
                        score |-> score]
         IN  Return(IF "tolerance" \in DOMAIN timingBudget
                    THEN [k \in DOMAIN result \cup {"tolerance"} |->
                             IF k = "tolerance" THEN timingBudget.tolerance ELSE result[k]]
                    ELSE result)

\* LightWallet.auditTimingMetric, from the measurement the computed metric
\* resolved with (line 248)
auditTimingMetric(timingBudget, timingMeasurement) ==
    IF timingBudget.metric \notin DOMAIN timingMetricIds
    THEN Throw(<<"Timing", "metric", "not", "found">>)
    ELSE LET score == IF timingMeasurement < timingBudget.budget THEN "pass"
                      ELSE IF timingMeasurement
                                  < timingBudget.budget + toleranceOrZero(timingBudget)
                      THEN "average"
                      ELSE "fail"
             result == [id |-> timingMetricIds[timingBudget.metric].id,
                        label |-> timingMetricIds[timingBudget.metric].label,
                        budget |-> timingBudget.budget,
                        actual |-> timingMeasurement,
                        difference |-> timingMeasurement - timingBudget.budget,
                        score |-> score]
         IN  Return(IF "tolerance" \in DOMAIN timingBudget
                    THEN [k \in DOMAIN result \cup {"tolerance"} |->
                             IF k = "tolerance" THEN timingBudget.tolerance ELSE result[k]]
                    ELSE result)

RECURSIVE requestCountsLoop(_, _, _)
\* the forEach of requestCountsByResourceType over the records still to visit
requestCountsLoop(summary, networkRecords, mainResourceURL) ==
    IF networkRecords = <<>> THEN summary
    ELSE LET record == Head(networkRecords)
             type == LightWallet_determineResourceType(record)
             withType == set(summary, type, getOrZero(summary, type) + 1)
             withTotal == set(withType, "total", getOrZero(withType, "total") + 1)
             withThirdParty ==
                 IF ~rootDomainsMatch(record.url, mainResourceURL)
                 THEN set(withTotal, "thirdParty", getOrZero(withTotal, "thirdParty") + 1)
                 ELSE withTotal
         IN  requestCountsLoop(withThirdParty, Tail(networkRecords), mainResourceURL)

requestCountsByResourceType(networkRecords, mainResourceURL) ==
    requestCountsLoop(EmptyMap, networkRecords, mainResourceURL)

requestAnalysis(requestBudgets, requestCounts) ==
    LET rowOf(requestBudget) ==
            LET actual == getOrZero(requestCounts, requestBudget.resourceType)
            IN  [id |-> requestBudget.resourceType,
                 label |-> requestBudget.resourceType,
                 budget |-> requestBudget.budget,
                 actual |-> actual,
                 difference |-> actual - requestBudget.budget,
                 score |-> IF actual > requestBudget.budget THEN "fail" ELSE "pass"]
    IN  rowsOf(sortDescending([i \in 1..Len(requestBudgets) |->
                                 [key |-> rowOf(requestBudgets[i]).difference,
                                  row |-> rowOf(requestBudgets[i])]]))

\* LightWallet.timingAnalysis, from the measurements the metrics of the
\* timing budgets resolved with, in the order of the budgets
timingAnalysis(timingBudgets, timingMeasurements) ==
    LET results == [i \in 1..Len(timingBudgets) |->
                       auditTimingMetric(timingBudgets[i], timingMeasurements[i]).value]
    IN  rowsOf(sortDescending([i \in 1..Len(results) |->
                                 [key |-> results[i].difference, row |-> results[i]]]))

\* the object after obj[key] = value
withProperty(obj, key, value) ==
    [k \in DOMAIN obj \cup {key} |-> IF k = key THEN value ELSE obj[k]]

\* section || []
sectionOrEmpty(environment, section) ==
    IF section \in DOMAIN environment THEN environment[section] ELSE <<>>

\* the rows of the results, in the order getScore visits them
scoredRows(results) ==
    [i \in 1..Len(results) |->
        sectionOrEmpty(results[i], "timings") \o sectionOrEmpty(results[i], "requests")
            \o sectionOrEmpty(results[i], "pageWeight")]

\* LightWallet.getScore: as soon as a row has failed the loops return 'fail'
getScore(results) ==
    LET rows == scoredRows(results)
        hasFailure == \E i \in 1..Len(rows) : \E j \in 1..Len(rows[i]) :
                          rows[i][j].score = "fail"
        hasWarnings == \E i \in 1..Len(rows) : \E j \in 1..Len(rows[i]) :
                           rows[i][j].score = "warn"
    IN  IF hasFailure THEN "fail" ELSE IF hasWarnings THEN "warn" ELSE "pass"

\* lines 399-402 of performanceAudit: connectionType is the object of
\* throttlingSettings itself, named here by its key
performanceAudit_result(budget) ==
    [cpuThrottling |-> budget.cpuThrottling, connectionType |-> budget.connectionType]

\* lines 413-422 of performanceAudit
performanceAudit_resources(result, budget, networkRecords, mainResource) ==
    LET withRequests ==
            IF "requests" \in DOMAIN budget
            THEN withProperty(result, "requests",
                              requestAnalysis(budget.requests,
                                              requestCountsByResourceType(networkRecords,
                                                                          mainResource.url)))
            ELSE result
    IN  IF "pageWeight" \in DOMAIN budget
        THEN withProperty(withRequests, "pageWeight",
                          pageWeightAnalysis(budget.pageWeight,
                                             pageWeightByResourceType(networkRecords,
                                                                      mainResource.url)))
        ELSE withRequests

\* the product of LightWallet.audit: a result holds the object of
\* throttlingSettings, read here as it is when the audit returns
LightWallet_product(results, throttling) ==
    [rawValue |-> Null,
     displayValue |-> getScore(results),
     details |-> [i \in 1..Len(results) |->
                     [results[i] EXCEPT !.connectionType = throttling[@]]]]

(***************************************************************************)
(* The question of the command line about error reporting: prompt and      *)
(* askPermission.  A call of askPermission is a record of calls: where it  *)
(* is (pc), the terminal it runs on, what it read from the Configstore,    *)
(* the prompt's UI, its timer, whether the warning was logged, the answer  *)
(* of the user, what Promise.race settled with, and what it returned.      *)
(***************************************************************************)
\* !process.stdout.isTTY || process.env.CI
isNonInteractive(isTTY, CI) == ~isTTY \/ (CI # Undefined /\ CI # Str(""))

\* prompt() up to its return: in a non-interactive session the promise is
\* resolved with false; else the question is shown, the timer is set and
\* the race is on
prompt(call) ==
    IF isNonInteractive(call.isTTY, call.CI)
    THEN [call EXCEPT !.race = Bool(FALSE)]
    ELSE [call EXCEPT !.ui = "open", !.timeout = "pending"]

\* askPermission up to its return or to its await
askPermission(stored, isTTY, CI) ==
    LET call == [pc |-> "awaitPrompt", isTTY |-> isTTY, CI |-> CI, read |-> stored,
                 ui |-> "none", timeout |-> "none", warned |-> FALSE,
                 answer |-> Undefined, race |-> Undefined, ret |-> Undefined]
    IN  IF stored.t = "boolean"
        THEN [call EXCEPT !.pc = "returned", !.ret = stored]
        ELSE prompt(call)

\* mutant: the callback of the answer leaves the timer running
promptAnswered_timerKept(call, isErrorReportingEnabled) ==
    [call EXCEPT !.answer = Bool(isErrorReportingEnabled),
                 !.ui = IF @ = "open" THEN "answered" ELSE @,
                 !.race = IF @ = Undefined THEN Bool(isErrorReportingEnabled) ELSE @]

\* the prompt resolves with the answer and the callback of prompt.then runs,
\* in the same turn of the event loop: clearTimeout, and the race is settled
\* with the answer unless it was settled before
promptAnswered(call, isErrorReportingEnabled) ==
    [call EXCEPT !.answer = Bool(isErrorReportingEnabled),
                 !.ui = IF @ = "open" THEN "answered" ELSE @,
                 !.timeout = IF @ = "pending" THEN "cleared" ELSE @,
                 !.race = IF @ = Undefined THEN Bool(isErrorReportingEnabled) ELSE @]

\* the callback of setTimeout, MAXIMUM_WAIT_TIME after the question
timeoutFired(call) ==
    [call EXCEPT !.ui = "closed",
                 !.warned = TRUE,
                 !.timeout = "fired",
                 !.race = IF @ = Undefined THEN Bool(FALSE) ELSE @]

(***************************************************************************)
(* Arguments the entry points are called with.                             *)
(***************************************************************************)
PatternChars == {"/", "a", "?", "*", "$"}
UrlChars == {"/", "a", "?", "#"}

PathStrings == SeqsUpTo(PatternChars, MaxPatternLen)

ValidPaths == {p \in PathStrings : ~validatePath(Str(p)).threw}

PageUrls ==
    {[protocol |-> "https:", host |-> <<"e", ".", "c">>, rest |-> r] :
        r \in {s \in SeqsUpTo(UrlChars, MaxUrlLen) : s = <<>> \/ s[1] \in {"/", "?", "#"}}}

(***************************************************************************)
(* budget.json of docs/performance-budgets.md, hostnames shortened, and    *)
(* the raw configurations Budget.initializeBudget is called with.          *)
(***************************************************************************)
MySite == <<"*", ".", "m", ".", "c">>
MySiteCdn == <<"m", ".", "d", ".", "c">>

ResourceBudgetJson(type, n) == Obj([resourceType |-> Str(type), budget |-> Num(n)])

TimingBudgetJson(metric, n) == Obj([metric |-> Str(metric), budget |-> Num(n)])

\* the value the documented example gives to each top-level property, and the
\* value the test of unsupported properties gives to `sizes`
ExampleProperty ==
    [path |-> Str(<<"/", "*">>),
     options |-> Obj([firstPartyHostnames |-> Arr(<<Str(MySite), Str(MySiteCdn)>>)]),
     timings |-> Arr(<<TimingBudgetJson("interactive", 5000),
                       TimingBudgetJson("first-meaningful-paint", 2000)>>),
     resourceSizes |-> Arr(<<ResourceBudgetJson("total", 500),
                             ResourceBudgetJson("script", 150)>>),
     resourceCounts |-> Arr(<<ResourceBudgetJson("third-party", 100)>>),
     sizes |-> Arr(<<>>)]

DocumentedBudgetKeys == {"path", "resourceSizes", "resourceCounts", "timings", "options"}

\* a budget with the top-level properties keys, each with its example value
ExampleBudget(keys) == Obj([k \in keys |-> ExampleProperty[k]])

\* the second budget of the documented example
CheckoutBudget ==
    Obj([options |-> ExampleProperty.options,
         path |-> Str(<<"/", "a">>),
         resourceSizes |-> Arr(<<ResourceBudgetJson("script", 200)>>)])

\* budgets that are malformed below the top level
MalformedBudgets ==
    {Obj([path |-> Str(<<"a">>)]),
     Obj([path |-> Num(1)]),
     Obj([path |-> Undefined]),
     Obj([resourceSizes |-> Str("script")]),
     Obj([resourceCounts |-> Num(1)]),
     Obj([timings |-> Arr(<<Null>>)]),
     Obj([resourceSizes |-> Arr(<<ResourceBudgetJson("movies", 1)>>)]),
     Obj([resourceSizes |-> Arr(<<Obj([resourceType |-> Str("script"), budget |-> Num(1),
                                       unit |-> Str("KB")])>>)]),
     Obj([resourceCounts |-> Arr(<<Obj([resourceType |-> Str("script"),
                                        budget |-> Str("100 MB")])>>)]),
     Obj([resourceCounts |-> Arr(<<ResourceBudgetJson("script", 1),
                                   ResourceBudgetJson("script", 2)>>)]),
     Obj([timings |-> Arr(<<TimingBudgetJson("interactive", 1),
                            TimingBudgetJson("interactive", 2)>>)]),
     Obj([timings |-> Arr(<<Obj([metric |-> Str("interactive"), budget |-> Infinity,
                                 tolerance |-> NaN])>>)])}

\* values of `budget` and `tolerance` that are not finite numbers; undefined
\* is what a missing property reads as
NotFiniteValues == {Str("100 MB"), Null, Undefined, NaN, Infinity}

\* budgets with one list whose entries are valid but for the budget, or the
\* tolerance, of the last one
NonFiniteBudgets ==
    {Obj([k \in {list} |->
             Arr(front \o <<Obj([resourceType |-> Str("script"), budget |-> v])>>)]) :
        list \in {"resourceSizes", "resourceCounts"},
        front \in {<<>>, <<ResourceBudgetJson("total", 500)>>},
        v \in NotFiniteValues}
    \cup {Obj([timings |->
                  Arr(front \o <<Obj([metric |-> Str("interactive"), budget |-> v])>>)]) :
              front \in {<<>>, <<TimingBudgetJson("first-cpu-idle", 2000)>>},
              v \in NotFiniteValues}
    \cup {Obj([timings |->
                  Arr(<<Obj([metric |-> Str("interactive"), budget |-> Num(5000),
                             tolerance |-> v])>>)]) :
              v \in NotFiniteValues \cup {Num(1000)}}

\* budgets that repeat a resource type or a metric, within one list or
\* across the lists
RepeatingBudgets ==
    {Obj([k \in {list} |-> Arr(<<ResourceBudgetJson("script", 1),
                                  ResourceBudgetJson("total", 2),
                                  ResourceBudgetJson("script", 3)>>)]) :
        list \in {"resourceSizes", "resourceCounts"}}
    \cup {Obj([resourceSizes |-> Arr(<<ResourceBudgetJson("script", 1),
                                       ResourceBudgetJson("script", 1)>>)]),
          Obj([timings |-> Arr(<<TimingBudgetJson("interactive", 1),
                                 TimingBudgetJson("first-cpu-idle", 2),
                                 TimingBudgetJson("interactive", 3)>>)]),
          Obj([resourceSizes |-> Arr(<<ResourceBudgetJson("script", 1)>>),
               resourceCounts |-> Arr(<<ResourceBudgetJson("script", 1)>>)]),
          Obj([resourceSizes |-> Arr(<<ResourceBudgetJson("script", 1),
                                       ResourceBudgetJson("total", 2)>>),
               resourceCounts |-> Arr(<<ResourceBudgetJson("total", 2),
                                        ResourceBudgetJson("script", 1)>>)])}

\* the budgets that lists of several budgets are made of
SomeBudgets ==
    {ExampleBudget(DocumentedBudgetKeys),
     ExampleBudget(DocumentedBudgetKeys \ {"options"}),
     ExampleBudget({"path", "sizes"}),
     CheckoutBudget,
     Obj([path |-> Str(<<"/", "a">>),
          resourceSizes |-> Arr(<<ResourceBudgetJson("script", 200)>>)]),
     Obj([path |-> Str(<<"/", "$", "a">>)])}

RawConfigs ==
    {Undefined, Null, Obj([budgets |-> Arr(<<>>)]), Arr(<<Null>>), Arr(<<Arr(<<>>)>>)}
    \cup {Arr(<<ExampleBudget(keys)>>) : keys \in SUBSET DOMAIN ExampleProperty}
    \cup {Arr(<<b>>) : b \in MalformedBudgets \cup NonFiniteBudgets \cup RepeatingBudgets}
    \cup {Arr(<<a, b>>) : a, b \in RepeatingBudgets}
    \cup {Arr(<<ExampleBudget({"path"}), b>>) : b \in NonFiniteBudgets}
    \cup {Arr(bs) : bs \in SeqsUpTo(SomeBudgets, MaxBudgets)}

(***************************************************************************)
(* The timing budgets Budget.validateTimingBudget is called with.          *)
(***************************************************************************)
\* "Supported timing metrics" of docs/performance-budgets.md
DocumentedTimingMetrics ==
    {"first-contentful-paint", "first-cpu-idle", "interactive", "first-meaningful-paint",
     "max-potential-fid", "estimated-input-latency", "total-blocking-time", "speed-index"}

\* metric names no version of the documentation lists
OtherMetricNames == {"lastMeaningfulPaint", "time-to-interactive", "script"}

BudgetValues == {Num(0), Num(5000), Infinity, NaN, Null, Str("100KB")}

TimingBudgets ==
    {Obj(props) : props \in
        {[metric |-> Str(m), budget |-> b] :
                  m \in DocumentedTimingMetrics \cup OtherMetricNames, b \in BudgetValues}
        \cup {[metric |-> Str(m), budget |-> b, tolerance |-> t] :
                  m \in DocumentedTimingMetrics \cup OtherMetricNames,
                  b \in {Num(5000), Str("100KB")},
                  t \in {Undefined, Num(1000), Str("100ms")}}
        \cup {[metric |-> Str(m), budget |-> Num(5000), unit |-> Str("ms")] :
                  m \in DocumentedTimingMetrics \cup OtherMetricNames}
        \cup {[budget |-> Num(5000)], [metric |-> Null, budget |-> Num(5000)]}}

(***************************************************************************)
(* The configurations new Budgets(budgetsJSON) is called with: the fixture *)
(* of test/config/budgets-test.js and what its tests change in it.         *)
(***************************************************************************)
TimingWithTolerance(metric, n, tol) ==
    Obj([metric |-> Str(metric), budget |-> Num(n), tolerance |-> Num(tol)])

FixtureProperty ==
    [resourceSizes |-> Arr(<<ResourceBudgetJson("script", 123),
                             ResourceBudgetJson("image", 456)>>),
     resourceCounts |-> Arr(<<ResourceBudgetJson("total", 100),
                              ResourceBudgetJson("third-party", 10)>>),
     timings |-> Arr(<<TimingWithTolerance("time-to-interactive", 2000, 1000),
                       TimingWithTolerance("first-contentful-paint", 1000, 500)>>),
     sizes |-> Arr(<<>>),
     path |-> Str(<<"/">>)]

FixtureBudget(keys) == Obj([k \in keys |-> FixtureProperty[k]])

BudgetsFixtures ==
    {FixtureBudget(keys) : keys \in SUBSET DOMAIN FixtureProperty}
    \cup {Obj([resourceCounts |-> Arr(<<ResourceBudgetJson("total", 100),
                                        ResourceBudgetJson("thirdParty", 10)>>)]),
          Obj([resourceSizes |-> Arr(<<ResourceBudgetJson("movies", 123)>>)]),
          Obj([resourceSizes |-> Arr(<<Obj([resourceType |-> Str("script"),
                                            budget |-> Str("100 MB")])>>)]),
          Obj([resourceSizes |-> Arr(<<Obj([resourceType |-> Str("script"),
                                            budget |-> Str("100")])>>)]),
          Obj([resourceSizes |-> Arr(<<Obj([resourceType |-> Str("script"), budget |-> Num(1),
                                            unit |-> Str("KB")])>>)]),
          Obj([resourceSizes |-> Arr(<<Obj([resourceType |-> Str("script"),
                                            budget |-> Null])>>)]),
          Obj([resourceCounts |-> Arr(<<Obj([resourceType |-> Str("script"),
                                             budget |-> Bool(TRUE)])>>)]),
          Obj([timings |-> Arr(<<Obj([metric |-> Str("time-to-interactive"),
                                      budget |-> Num(2000), tolerance |-> Null])>>)]),
          Obj([resourceSizes |-> Arr(<<Str("script")>>)]),
          Obj([resourceCounts |-> Null]),
          Obj([timings |-> Arr(<<TimingBudgetJson("lastMeaningfulPaint", 2000)>>)]),
          Obj([timings |-> Arr(<<Obj([metric |-> Str("time-to-interactive"),
                                      budget |-> Str("100KB")])>>)]),
          Obj([timings |-> Arr(<<Obj([metric |-> Str("time-to-interactive"),
                                      budget |-> Num(2000), tolerance |-> Str("100ms")])>>)]),
          Obj([timings |-> Arr(<<Obj([metric |-> Str("time-to-interactive"),
                                      budget |-> Num(2000), unit |-> Str("ms")])>>)])}

BudgetsJsons ==
    {Obj([budgets |-> bs]) :
        bs \in {Undefined, Arr(<<Null>>)}
               \cup {Arr(list) : list \in SeqsUpTo(BudgetsFixtures, MaxBudgets)}}

(***************************************************************************)
(* The page evaluations: context.settings.budgets, the page's URL and its  *)
(* network records.                                                        *)
(***************************************************************************)
ExampleHost == <<"e", ".", "c">>
CdnHost == <<"d", ".", "e", ".", "c">>
OtherHost == <<"t", ".", "c">>
\* a host whose name ends with the name of ExampleHost without being one of
\* its subdomains, as notexample.com does with example.com
LookalikeHost == <<"x", "e", ".", "c">>

HttpUrl(host, rest) == [protocol |-> "http:", host |-> host, rest |-> rest]

NetworkRecordPool ==
    {[url |-> HttpUrl(ExampleHost, <<"/">>), resourceType |-> Str("Document"),
      transferSize |-> 30],
     [url |-> HttpUrl(CdnHost, <<"/", "a">>), resourceType |-> Str("Script"),
      transferSize |-> 2048],
     [url |-> HttpUrl(OtherHost, <<"/", "a">>), resourceType |-> Str("Image"),
      transferSize |-> 70],
     [url |-> HttpUrl(LookalikeHost, <<"/", "a">>), resourceType |-> Str("Script"),
      transferSize |-> 400],
     [url |-> HttpUrl(ExampleHost, <<"/", "favicon.ico">>), resourceType |-> Undefined,
      transferSize |-> 1],
     [url |-> [protocol |-> "data:", host |-> <<>>, rest |-> <<"a">>],
      resourceType |-> Str("Image"), transferSize |-> 5]}

NetworkRecordLists == SeqsUpTo(NetworkRecordPool, MaxRecords)

\* records of '/favicon.ico' with a mapped and with an unmapped raw type, and
\* a record whose URL goes on after '/favicon.ico'
FaviconRecords ==
    {[url |-> HttpUrl(OtherHost, <<"/", "favicon.ico">>), resourceType |-> Str("Image"),
      transferSize |-> 3],
     [url |-> HttpUrl(OtherHost, <<"/", "a", "/", "favicon.ico">>),
      resourceType |-> Str("XHR"), transferSize |-> 7],
     [url |-> HttpUrl(ExampleHost, <<"/", "favicon.ico", "?", "a">>),
      resourceType |-> Undefined, transferSize |-> 9]}

\* the records ResourceSummary.summarize is called with
SummaryRecordLists == SeqsUpTo(NetworkRecordPool \cup FaviconRecords, MaxRecords)

\* the records of the pages the budgets of budget.json are applied to: one
\* record of each of three resource types, no two of the same size
AuditRecordLists ==
    SeqsUpTo({r \in NetworkRecordPool : r.transferSize \in {30, 70, 2048}}, MaxRecords)

\* the paths of the budgets of budget.json: the root, a page, a page and no
\* other, and a path no page of ExampleHost has
ConfigPaths == {<<"/">>, <<"/", "a">>, <<"/", "a", "$">>, <<"/", "/">>}

\* budget.json budgets that validate, by Budget.initializeBudget
PageBudgetJsons ==
    {Obj([path |-> Str(p)]) : p \in ConfigPaths}
    \cup {Obj([path |-> Str(p),
                resourceSizes |-> Arr(<<ResourceBudgetJson("script", 1),
                                        ResourceBudgetJson("total", 0)>>),
                resourceCounts |-> Arr(<<ResourceBudgetJson("script", 0)>>)]) :
              p \in {<<"/">>, <<"/", "a">>}}

\* the validated budgets, and one with the options the tests of the
\* third-party summary put into context.settings.budgets
PageBudgets ==
    {initializeBudget(Arr(<<b>>)).value[1] : b \in PageBudgetJsons}
    \cup {[path |-> <<"/">>, options |-> [firstPartyHostnames |-> <<OtherHost>>]]}

SettingsBudgets ==
    {Null, Undefined} \cup {Arr(bs) : bs \in SeqsUpTo(PageBudgets, MaxBudgets)}

\* the firstPartyHostnames of the tests of the third-party summary
FirstPartyHostLists ==
    {<<CdnHost>>, <<(<<"*", ".">> \o ExampleHost)>>, <<ExampleHost>>, <<ExampleHost, OtherHost>>,
     <<ExampleHost, <<"*", ".">> \o ExampleHost, CdnHost>>, <<(<<"*", ".", "c">>)>>}

\* budgets with and without options, as the tests of the third-party summary
\* put them into context.settings.budgets
FirstPartyBudgets ==
    {[path |-> <<"/">>, options |-> [firstPartyHostnames |-> hosts]] :
        hosts \in FirstPartyHostLists}
    \cup {[path |-> <<"/", "a">>, options |-> [firstPartyHostnames |-> <<ExampleHost>>]],
          [path |-> <<"/">>]}

ThirdPartySettings == {Arr(bs) : bs \in SeqsUpTo(FirstPartyBudgets, MaxBudgets)}

\* the pages the tests of the third-party summary are run on
ThirdPartyPageUrls == {HttpUrl(ExampleHost, <<>>), HttpUrl(ExampleHost, <<"/", "a">>)}

\* the pages of ExampleHost, by their paths
MainResourceUrls ==
    {HttpUrl(ExampleHost, r) :
        r \in {s \in SeqsUpTo({"/", "a"}, MaxPageUrlLen) : s = <<>> \/ s[1] = "/"}}

\* the pageWeight entries of a LightWallet budget, in kilobytes
PageWeightEntries ==
    {[resourceType |-> t, budget |-> b] : t \in {"script", "total", "font"}, b \in {0, 2, 3}}

PageWeightBudgets == SeqsUpTo(PageWeightEntries, MaxEntries)

\* the page weights of the pages, as performanceAudit computes them
PageWeightSummaries ==
    {pageWeightByResourceType(rs, HttpUrl(ExampleHost, <<"/">>)) : rs \in NetworkRecordLists}

\* the timing budgets of a LightWallet budget and the measurements of the
\* metric, in seconds; speedIndex is a metric auditTimingMetric does not know
LightWalletTimingBudgets ==
    {[metric |-> m, budget |-> b] :
        m \in {"firstContentfulPaint", "timeToInteractive", "speedIndex"}, b \in {2, 4}}
    \cup {[metric |-> m, budget |-> b, tolerance |-> t] :
              m \in {"firstContentfulPaint", "timeToInteractive", "speedIndex"},
              b \in {2, 4}, t \in {0, 1, 2}}

TimingMeasurements == 0..7

\* the budgets of budgets.json as LightWalletBudget validates them: two
\* that share a connection and differ in CPU throttling, and budgets with
\* and without timings
LightWalletBudgets ==
    {[cpuThrottling |-> 1, connectionType |-> "wifi",
      timings |-> <<[metric |-> "timeToInteractive", budget |-> 4, tolerance |-> 2]>>],
     [cpuThrottling |-> 4, connectionType |-> "wifi",
      timings |-> <<[metric |-> "timeToInteractive", budget |-> 4, tolerance |-> 2]>>],
     [cpuThrottling |-> 2, connectionType |-> "slow3G",
      timings |-> <<[metric |-> "firstContentfulPaint", budget |-> 4],
                    [metric |-> "timeToInteractive", budget |-> 6, tolerance |-> 1]>>],
     [cpuThrottling |-> 1, connectionType |-> "wifi",
      pageWeight |-> <<[resourceType |-> "script", budget |-> 2]>>],
     [cpuThrottling |-> 3, connectionType |-> "slow3G",
      requests |-> <<[resourceType |-> "total", budget |-> 1],
                     [resourceType |-> "thirdParty", budget |-> 0]>>,
      pageWeight |-> <<[resourceType |-> "total", budget |-> 0]>>]}

LightWalletConfigs == SeqsUpTo(LightWalletBudgets, MaxBudgets)

\* the pages of the LightWallet audit: without records, and with those of
\* the audit's test
LightWalletRecordLists ==
    {<<>>,
     <<[url |-> HttpUrl(ExampleHost, <<"/">>), resourceType |-> Str("Document"),
        transferSize |-> 30],
       [url |-> HttpUrl(CdnHost, <<"/", "a">>), resourceType |-> Str("Script"),
        transferSize |-> 2048],
       [url |-> HttpUrl(OtherHost, <<"/", "a">>), resourceType |-> Str("Image"),
        transferSize |-> 70]>>}

\* what the simulated metrics resolve with, in seconds, by the CPU slowdown
\* multiplier of the settings they read: a page with a fast and a page with
\* a slow first paint
SimulatedTimings ==
    {[m \in DOMAIN timingMetricIds |-> [k \in 1..4 |-> base[m] + k]] :
        base \in {[m \in DOMAIN timingMetricIds |-> IF m = "timeToInteractive" THEN 3 ELSE 1],
                  [m \in DOMAIN timingMetricIds |-> 1]}}

\* config/constants.lightWalletThrottling before the audit has run
InitialThrottling ==
    [connectionType \in {"slow3G", "regular3G", "fast3G", "slow4G", "regular4G", "wifi"} |->
        [networkLabel |-> connectionType, cpuSlowdownMultiplier |-> Undefined]]

\* the resourceSizes and the resourceCounts of the budgets the table of the
\* resource-budget audit is built for; undefined stands for a list that
\* budget.json does not have
TableSizeLists ==
    {Undefined,
     Arr(<<ResourceBudgetJson("script", 2)>>),
     Arr(<<ResourceBudgetJson("script", 1), ResourceBudgetJson("image", 0)>>),
     Arr(<<ResourceBudgetJson("total", 0), ResourceBudgetJson("third-party", 0)>>)}

TableCountLists ==
    {Undefined,
     Arr(<<ResourceBudgetJson("script", 0)>>),
     Arr(<<ResourceBudgetJson("third-party", 100)>>),
     Arr(<<ResourceBudgetJson("image", 1), ResourceBudgetJson("total", 2)>>)}

\* the budgets of these lists, validated by Budget.initializeBudget
TableBudgets ==
    {initializeBudget(Arr(<<Obj([k \in {key \in {"resourceSizes", "resourceCounts"} :
                                           (IF key = "resourceSizes" THEN sizes ELSE counts)
                                               # Undefined} |->
                                    IF k = "resourceSizes" THEN sizes ELSE counts])>>)).value[1] :
        sizes \in TableSizeLists, counts \in TableCountLists}

\* what the Configstore holds for isErrorReportingEnabled before the first
\* call: nothing, a preference, or a value that is not a boolean
StoredPreferences == {Undefined, Bool(TRUE), Bool(FALSE), Str("yes")}

\* process.env.CI
CIValues == {Undefined, Str("true")}

(***************************************************************************)
(* The state machine.                                                      *)
(***************************************************************************)
InitValidatePath ==
    /\ op = "validatePath"
    /\ args \in {[val |-> v] : v \in {Undefined, Null} \cup {Str(p) : p \in PathStrings}}

InitUrlMatchesPattern ==
    /\ op = "urlMatchesPattern"
    /\ args \in {[url |-> u, pattern |-> p] : u \in PageUrls, p \in ValidPaths}

InitValidateTimingBudget ==
    /\ op = "validateTimingBudget"
    /\ args \in {[timingBudget |-> b] : b \in TimingBudgets}

InitInitializeBudget ==
    /\ op = "initializeBudget"
    /\ args \in {[budgetJson |-> j] : j \in RawConfigs}

InitBudgets ==
    /\ op = "Budgets"
    /\ args \in {[budgetsJSON |-> j] : j \in BudgetsJsons}

InitResourceBudgetAudit ==
    /\ op = "ResourceBudget.audit"
    /\ args \in {[networkRecords |-> rs, URL |-> [requestedUrl |-> u, finalUrl |-> u],
                   budgets |-> bs] :
                     rs \in AuditRecordLists, u \in MainResourceUrls, bs \in SettingsBudgets}

InitThirdPartySummarize ==
    /\ op = "ThirdPartySummary.summarize"
    /\ \/ args \in {[mainResource |-> [url |-> u], networkRecords |-> rs, budgets |-> bs] :
                        rs \in AuditRecordLists, u \in MainResourceUrls,
                        bs \in SettingsBudgets}
       \/ args \in {[mainResource |-> [url |-> u], networkRecords |-> rs, budgets |-> bs] :
                        rs \in NetworkRecordLists, u \in ThirdPartyPageUrls,
                        bs \in ThirdPartySettings}

InitResourceSummarize ==
    /\ op = "ResourceSummary.summarize"
    /\ args \in {[networkRecords |-> rs] : rs \in SummaryRecordLists}

InitResourceSummaryAudit ==
    /\ op = "ResourceSummary.audit"
    /\ args \in {[networkRecords |-> rs, URL |-> [requestedUrl |-> u, finalUrl |-> u]] :
                     rs \in NetworkRecordLists, u \in MainResourceUrls}

InitPageWeightAnalysis ==
    /\ op = "LightWallet.pageWeightAnalysis"
    /\ args \in {[pageWeightBudgets |-> bs, bytesSummary |-> m] :
                     bs \in PageWeightBudgets, m \in PageWeightSummaries}

InitAuditTimingMetric ==
    /\ op = "LightWallet.auditTimingMetric"
    /\ args \in {[timingBudget |-> b, timingMeasurement |-> t] :
                     b \in LightWalletTimingBudgets, t \in TimingMeasurements}

InitBudgetTable ==
    /\ op = "ResourceBudget.budgetTable"
    /\ args \in {[budget |-> b, networkRecords |-> rs] :
                     b \in TableBudgets, rs \in NetworkRecordLists}

InitAskPermission ==
    /\ op = "askPermission"
    /\ args \in {[isErrorReportingEnabled |-> v] : v \in StoredPreferences}

InitLightWalletAudit ==
    /\ op = "LightWallet.audit"
    /\ args \in {[budgets |-> bs, networkRecords |-> rs,
                   URL |-> [requestedUrl |-> u, finalUrl |-> u], simulated |-> t] :
                     bs \in LightWalletConfigs, rs \in LightWalletRecordLists,
                     u \in {HttpUrl(ExampleHost, <<"/">>)}, t \in SimulatedTimings}

Init ==
    /\ pc = "call"
    /\ ret = Undefined
    /\ thrown = NoError
    /\ retRef = Undefined
    /\ \/ InitValidatePath
       \/ InitUrlMatchesPattern
       \/ InitValidateTimingBudget
       \/ InitInitializeBudget
       \/ InitBudgets
       \/ InitResourceBudgetAudit
       \/ InitThirdPartySummarize
       \/ InitResourceSummarize
       \/ InitResourceSummaryAudit
       \/ InitPageWeightAnalysis
       \/ InitAuditTimingMetric
       \/ InitLightWalletAudit
       \/ InitBudgetTable
       \/ InitAskPermission
    /\ configstore = IF op = "askPermission" THEN args.isErrorReportingEnabled ELSE Undefined
    /\ calls = <<>>
    /\ throttlingSettings = InitialThrottling
    /\ performanceAudits = <<>>
    /\ heap = IF op = "initializeBudget" THEN Allocate(args.budgetJson, "input")
              ELSE EmptyHeap

Finish(outcome) ==
    /\ pc' = "done"
    /\ ret' = IF outcome.threw THEN Undefined ELSE outcome.value
    /\ thrown' = IF outcome.threw THEN outcome.message ELSE NoError
    /\ UNCHANGED <<op, args, heap, retRef, throttlingSettings, performanceAudits, configstore, calls>>

\* the end of a call that creates objects
FinishOnHeap(outcome, after) ==
    /\ pc' = "done"
    /\ ret' = IF outcome.threw THEN Undefined ELSE outcome.value
    /\ thrown' = IF outcome.threw THEN outcome.message ELSE NoError
    /\ heap' = after.heap
    /\ retRef' = after.retRef
    /\ UNCHANGED <<op, args, throttlingSettings, performanceAudits, configstore, calls>>

ValidatePath ==
    /\ pc = "call"
    /\ op = "validatePath"
    /\ Finish(validatePath(args.val))

UrlMatchesPattern ==
    /\ pc = "call"
    /\ op = "urlMatchesPattern"
    /\ Finish(Return(urlMatchesPattern(args.url, args.pattern)))

ValidateTimingBudget ==
    /\ pc = "call"
    /\ op = "validateTimingBudget"
    /\ Finish(validateTimingBudget(args.timingBudget))

InitializeBudget ==
    /\ pc = "call"
    /\ op = "initializeBudget"
    /\ FinishOnHeap(initializeBudget(args.budgetJson),
                    initializeBudget_heap(args.budgetJson, heap))

Budgets ==
    /\ pc = "call"
    /\ op = "Budgets"
    /\ Finish(Budgets_constructor(args.budgetsJSON))

ResourceBudgetAudit ==
    /\ pc = "call"
    /\ op = "ResourceBudget.audit"
    /\ Finish(Return(ResourceBudget_audit(args.networkRecords, args.budgets)))

ThirdPartySummarize ==
    /\ pc = "call"
    /\ op = "ThirdPartySummary.summarize"
    /\ Finish(Return(ThirdPartySummary_summarize(args.mainResource, args.networkRecords,
                                                 args.budgets)))

\* ResourceSummary.compute_ on the page's network records
ResourceSummarize ==
    /\ pc = "call"
    /\ op = "ResourceSummary.summarize"
    /\ Finish(Return(summarize(args.networkRecords)))

ResourceSummaryAudit ==
    /\ pc = "call"
    /\ op = "ResourceSummary.audit"
    /\ Finish(Return(ResourceSummaryAudit_audit(args.networkRecords,
                                                [url |-> args.URL.finalUrl])))

PageWeightAnalysis ==
    /\ pc = "call"
    /\ op = "LightWallet.pageWeightAnalysis"
    /\ Finish(Return(pageWeightAnalysis(args.pageWeightBudgets, args.bytesSummary)))

AuditTimingMetric ==
    /\ pc = "call"
    /\ op = "LightWallet.auditTimingMetric"
    /\ Finish(auditTimingMetric(args.timingBudget, args.timingMeasurement))

\* ResourceBudget.budgetTable on the summary of the page's records
BudgetTable ==
    /\ pc = "call"
    /\ op = "ResourceBudget.budgetTable"
    /\ Finish(Return(budgetTable(args.budget, summarize(args.networkRecords), summaryKeys)))

\* LightWallet.audit up to its await: the map of line 435 calls
\* performanceAudit for every budget, and each call runs to its first await
LightWalletAuditStart ==
    /\ pc = "call"
    /\ op = "LightWallet.audit"
    /\ pc' = "running"
    /\ performanceAudits' = [i \in 1..Len(args.budgets) |-> [pc |-> "awaitRecords"]]
    /\ UNCHANGED <<op, args, ret, thrown, heap, retRef, throttlingSettings, configstore, calls>>

\* performanceAudit of budget i from the end of its awaits of lines 395-396
\* to its next await: with timings, the one of the computed metrics inside
\* auditTimingMetric (line 248), else to its return
PerformanceAuditResumeOf(i) ==
    /\ pc = "running"
    /\ performanceAudits[i].pc = "awaitRecords"
    /\ LET budget == args.budgets[i]
           result == performanceAudit_result(budget)
       IN  IF "timings" \in DOMAIN budget
           THEN /\ throttlingSettings' =
                       [throttlingSettings EXCEPT
                           ![budget.connectionType].cpuSlowdownMultiplier =
                               Num(budget.cpuThrottling)]
                /\ performanceAudits' =
                       [performanceAudits EXCEPT
                           ![i] = [pc |-> "awaitTimings", result |-> result]]
           ELSE /\ performanceAudits' =
                       [performanceAudits EXCEPT
                           ![i] = [pc |-> "done",
                                   result |-> performanceAudit_resources(
                                                  result, budget, args.networkRecords,
                                                  [url |-> args.URL.finalUrl])]]
                /\ UNCHANGED throttlingSettings
    /\ UNCHANGED <<op, args, pc, ret, thrown, heap, retRef, configstore, calls>>

\* one of the evaluations waiting for its records goes on
PerformanceAuditResume == \E i \in 1..Len(performanceAudits) : PerformanceAuditResumeOf(i)

\* the computed metrics of budget i resolve: they simulate the page with
\* settings.throttling, the object of throttlingSettings, as it is now; then
\* performanceAudit runs to its return
PerformanceAuditTimingsOf(i) ==
    /\ pc = "running"
    /\ performanceAudits[i].pc = "awaitTimings"
    /\ LET budget == args.budgets[i]
           throttling == throttlingSettings[budget.connectionType]
           measurements == [j \in 1..Len(budget.timings) |->
                               args.simulated[budget.timings[j].metric]
                                             [throttling.cpuSlowdownMultiplier.n]]
           result == withProperty(performanceAudits[i].result, "timings",
                                  timingAnalysis(budget.timings, measurements))
       IN  performanceAudits' =
               [performanceAudits EXCEPT
                   ![i] = [pc |-> "done",
                           result |-> performanceAudit_resources(
                                          result, budget, args.networkRecords,
                                          [url |-> args.URL.finalUrl])]]
    /\ UNCHANGED <<op, args, pc, ret, thrown, heap, retRef, throttlingSettings, configstore, calls>>

\* the metrics of one of the evaluations waiting for them resolve
PerformanceAuditTimings == \E i \in 1..Len(performanceAudits) : PerformanceAuditTimingsOf(i)

\* Promise.all has resolved: LightWallet.audit returns its product
LightWalletAuditReturn ==
    /\ pc = "running"
    /\ op = "LightWallet.audit"
    /\ \A i \in 1..Len(performanceAudits) : performanceAudits[i].pc = "done"
    /\ pc' = "done"
    /\ ret' = LightWallet_product([i \in 1..Len(performanceAudits) |->
                                      performanceAudits[i].result],
                                  throttlingSettings)
    /\ UNCHANGED <<op, args, thrown, heap, retRef, throttlingSettings, performanceAudits, configstore, calls>>

\* askPermission is called, on some terminal: it returns the stored
\* preference or goes on to its await of prompt()
AskPermissionCall ==
    /\ pc = "call"
    /\ op = "askPermission"
    /\ Len(calls) < MaxCalls
    /\ \E isTTY \in BOOLEAN, CI \in CIValues :
          calls' = Append(calls, askPermission(configstore, isTTY, CI))
    /\ UNCHANGED <<op, args, pc, ret, thrown, heap, retRef, throttlingSettings,
                   performanceAudits, configstore>>

\* the user answers a question: one on the screen, or one the timer has
\* closed
PromptAnswer ==
    /\ op = "askPermission"
    /\ \E i \in 1..Len(calls), isErrorReportingEnabled \in BOOLEAN :
          /\ calls[i].ui \in {"open", "closed"}
          /\ calls[i].answer = Undefined
          /\ calls' = [calls EXCEPT ![i] = promptAnswered(@, isErrorReportingEnabled)]
    /\ UNCHANGED <<op, args, pc, ret, thrown, heap, retRef, throttlingSettings,
                   performanceAudits, configstore>>

\* the timer of a call fires
PromptTimeout ==
    /\ op = "askPermission"
    /\ \E i \in 1..Len(calls) :
          /\ calls[i].timeout = "pending"
          /\ calls' = [calls EXCEPT ![i] = timeoutFired(@)]
    /\ UNCHANGED <<op, args, pc, ret, thrown, heap, retRef, throttlingSettings,
                   performanceAudits, configstore>>

\* askPermission after its await: the race is settled, the outcome is stored
\* and returned
AskPermissionResume ==
    /\ op = "askPermission"
    /\ \E i \in 1..Len(calls) :
          /\ calls[i].pc = "awaitPrompt"
          /\ calls[i].race # Undefined
          /\ configstore' = calls[i].race
          /\ calls' = [calls EXCEPT ![i].pc = "returned", ![i].ret = calls[i].race]
    /\ UNCHANGED <<op, args, pc, ret, thrown, heap, retRef, throttlingSettings,
                   performanceAudits>>

Next ==
    \/ ValidatePath
    \/ UrlMatchesPattern
    \/ ValidateTimingBudget
    \/ InitializeBudget
    \/ Budgets
    \/ ResourceBudgetAudit
    \/ ThirdPartySummarize
    \/ ResourceSummarize
    \/ ResourceSummaryAudit
    \/ PageWeightAnalysis
    \/ AuditTimingMetric
    \/ LightWalletAuditStart
    \/ PerformanceAuditResume
    \/ PerformanceAuditTimings
    \/ LightWalletAuditReturn
    \/ BudgetTable
    \/ AskPermissionCall
    \/ PromptAnswer
    \/ PromptTimeout
    \/ AskPermissionResume

Spec == Init /\ [][Next]_vars

(***************************************************************************)
(* Properties of the pattern matcher and of the path grammar.              *)
(***************************************************************************)
Done(o) == pc = "done" /\ op = o

\* the URL's path plus query string, as the matcher reads it
PathAndQuery(url) == URL(url).pathname \o URL(url).search

IsPrefixOf(p, s) == Len(p) <= Len(s) /\ \A i \in 1..Len(p) : s[i] = p[i]

IsSuffixOf(p, s) == Len(p) <= Len(s) /\ \A i \in 1..Len(p) : s[Len(s) - Len(p) + i] = p[i]

\* p occurs in s at or after position from + 1
OccursFrom(p, s, from) ==
    \E x \in from..(Len(s) - Len(p)) : \A i \in 1..Len(p) : s[x + i] = p[i]

HasChar(p, c) == \E i \in 1..Len(p) : p[i] = c

\* C2: for a validated pattern with neither '*' nor '$', urlMatchesPattern is
\* true exactly when the URL's path plus query string starts with the pattern;
\* a path matches itself and a longer pattern never matches a shorter path.
C2_PrefixMatch ==
    (Done("urlMatchesPattern") /\ ~HasChar(args.pattern, "*") /\ ~HasChar(args.pattern, "$"))
    => /\ ret = IsPrefixOf(args.pattern, PathAndQuery(args.url))
       /\ (args.pattern = PathAndQuery(args.url) => ret = TRUE)
       /\ (Len(args.pattern) > Len(PathAndQuery(args.url)) => ret = FALSE)

C2_Witness ==
    /\ Done("urlMatchesPattern")
    /\ args.pattern = <<"/", "a">>
    /\ args.url.rest = <<"/", "a", "?", "a">>
    /\ ret = TRUE

\* C3: for a validated pattern with a trailing '$' and no '*', urlMatchesPattern
\* is true exactly when the URL's path plus query string equals the pattern
\* without its '$'.
C3_ExactMatch ==
    (Done("urlMatchesPattern") /\ ~HasChar(args.pattern, "*") /\ HasChar(args.pattern, "$"))
    => ret = (PathAndQuery(args.url) \o <<"$">> = args.pattern)

C3_Witness ==
    /\ Done("urlMatchesPattern")
    /\ args.pattern = <<"/", "a", "$">>
    /\ args.url.rest = <<"/", "a", "/", "a">>
    /\ ret = FALSE

\* C4: for a validated pattern before*after without '$', urlMatchesPattern is
\* true exactly when the URL path starts with before and the part of the URL
\* path after the first Len(before) characters contains after.
C4_WildcardMatch ==
    (Done("urlMatchesPattern") /\ HasChar(args.pattern, "*") /\ ~HasChar(args.pattern, "$"))
    => \A k \in 1..Len(args.pattern) :
          args.pattern[k] = "*" =>
             LET before == SubSeq(args.pattern, 1, k - 1)
                 after == SubSeq(args.pattern, k + 1, Len(args.pattern))
                 urlPath == PathAndQuery(args.url)
             IN  ret = (IsPrefixOf(before, urlPath) /\ OccursFrom(after, urlPath, Len(before)))

C4_Witness ==
    /\ Done("urlMatchesPattern")
    /\ args.pattern = <<"/", "a", "*", "a">>
    /\ args.url.rest = <<"/", "a">>
    /\ ret = FALSE

\* C5: for a validated pattern before*after$, urlMatchesPattern is true exactly
\* when the URL path starts with before and ends with after.
C5_WildcardAnchoredMatch ==
    (Done("urlMatchesPattern") /\ HasChar(args.pattern, "*") /\ HasChar(args.pattern, "$"))
    => \A k \in 1..Len(args.pattern) :
          args.pattern[k] = "*" =>
             LET before == SubSeq(args.pattern, 1, k - 1)
                 after == SubSeq(args.pattern, k + 1, Len(args.pattern) - 1)
                 urlPath == PathAndQuery(args.url)
             IN  ret = (IsPrefixOf(before, urlPath) /\ IsSuffixOf(after, urlPath))

C5_Witness ==
    /\ Done("urlMatchesPattern")
    /\ args.pattern = <<"/", "*", "a", "$">>
    /\ args.url.rest = <<"/", "a", "/", "a">>
    /\ ret = TRUE

\* C6: the patterns "/" and "/*" are equivalent: for every URL both give the
\* same result, and that result is true.
C6_SlashEquivalentToSlashStar ==
    (Done("urlMatchesPattern") /\ args.pattern \in {<<"/">>, <<"/", "*">>})
    => /\ ret = TRUE
       /\ urlMatchesPattern(args.url, <<"/">>) = urlMatchesPattern(args.url, <<"/", "*">>)

C6_Witness ==
    /\ Done("urlMatchesPattern")
    /\ args.pattern = <<"/", "*">>
    /\ args.url.rest = <<>>
    /\ ret = TRUE

\* C7: validatePath accepts a string exactly when it starts with '/', has at
\* most one '*' and has no '$' except as its last character; any other string
\* throws; an accepted path is returned unchanged; undefined and null give "/".
C7_PathGrammar ==
    Done("validatePath")
    => IF args.val \in {Undefined, Null}
       THEN thrown = NoError /\ ret = <<"/">>
       ELSE LET s == args.val.s
                wellFormed ==
                    /\ Len(s) >= 1 /\ s[1] = "/"
                    /\ \A i, j \in 1..Len(s) : (s[i] = "*" /\ s[j] = "*") => i = j
                    /\ \A i \in 1..Len(s) : s[i] = "$" => i = Len(s)
            IN  /\ (thrown = NoError) <=> wellFormed
                /\ wellFormed => ret = s
                /\ ~wellFormed => (Len(thrown) >= 2 /\ SubSeq(thrown, 1, 2) = <<"Invalid", "path">>)

C7_Witness ==
    /\ Done("validatePath")
    /\ args.val = Str(<<"/", "$", "a">>)
    /\ thrown # NoError

(***************************************************************************)
(* Properties of the validation of budget.json.                            *)
(***************************************************************************)
\* C8: initializeBudget accepts a budget whose top-level properties are among
\* path, resourceSizes, resourceCounts, timings and options (with valid
\* contents) and the validated budget keeps its options; a budget with any
\* other top-level property is rejected; the documented budget.json validates.
C8_DocumentedKeysAccepted ==
    Done("initializeBudget")
    => /\ \A keys \in SUBSET DOMAIN ExampleProperty :
             args.budgetJson = Arr(<<ExampleBudget(keys)>>)
             => IF keys \subseteq DocumentedBudgetKeys
                THEN /\ thrown = NoError
                     /\ "options" \in keys
                        => /\ "options" \in DOMAIN ret[1]
                           /\ ret[1]["options"] = ExampleProperty.options
                ELSE thrown # NoError
       /\ args.budgetJson = Arr(<<ExampleBudget(DocumentedBudgetKeys), CheckoutBudget>>)
          => thrown = NoError

\* C9: constructing Budgets from a configuration in which some budget has an
\* unsupported top-level property throws an error whose message contains
\* "Unsupported budget property".
C9_UnsupportedBudgetProperty ==
    (/\ Done("Budgets")
     /\ Get(args.budgetsJSON, "budgets").t = "array"
     /\ \E i \in 1..Len(Get(args.budgetsJSON, "budgets").items) :
           LET b == Get(args.budgetsJSON, "budgets").items[i]
           IN  b.t = "object" /\ RestKeys(b, {"resourceSizes", "resourceCounts", "timings"}) # {})
    => includes(thrown, <<"Unsupported", "budget", "property">>)

\* C10: validateTimingBudget accepts every timing metric the documentation
\* lists as supported when its budget is a number, and rejects every other
\* metric with an error containing "Invalid timing metric".
C10_DocumentedTimingMetrics ==
    (/\ Done("validateTimingBudget")
     /\ DOMAIN args.timingBudget.props = {"metric", "budget"}
     /\ args.timingBudget.props.metric.t = "string"
     /\ args.timingBudget.props.budget.t = "number")
    => IF args.timingBudget.props.metric.s \in DocumentedTimingMetrics
       THEN thrown = NoError /\ ret.metric = args.timingBudget.props.metric.s
       ELSE includes(thrown, <<"Invalid", "timing", "metric">>)

(***************************************************************************)
(* Properties of the selection of the budget of a page.                    *)
(***************************************************************************)
\* the last budget, in the order of declaration, whose path matches the URL
LastMatching(budgets, url) ==
    IF budgets \in {Null, Undefined} THEN Undefined
    ELSE IF \E i \in 1..Len(budgets.items) : urlMatchesPattern(url, budgets.items[i].path)
    THEN budgets.items[CHOOSE i \in 1..Len(budgets.items) :
                          /\ urlMatchesPattern(url, budgets.items[i].path)
                          /\ \A j \in (i + 1)..Len(budgets.items) :
                                ~urlMatchesPattern(url, budgets.items[j].path)]
    ELSE Undefined

\* C1: the budget applied to a page, by the table of the resource-budget audit
\* and by the first-party hosts of the third-party summary, is the last budget
\* in the order of declaration whose path matches the URL; when no budget
\* matches, no budget is applied.
C1_LastMatchingBudgetApplied ==
    /\ Done("ResourceBudget.audit")
       => LET budget == LastMatching(args.budgets, args.URL.finalUrl)
              summary == summarize(args.networkRecords)
          IN  /\ ret.details.headings = tableHeadings(budget)
              /\ ret.details.items = IF budget = Undefined
                                     THEN defaultTable(summary, summaryKeys)
                                     ELSE budgetTable(budget, summary, summaryKeys)
    /\ Done("ThirdPartySummary.summarize")
       => LET budget == LastMatching(args.budgets, args.mainResource.url)
              hosts == IF budget # Undefined /\ "options" \in DOMAIN budget
                       THEN budget.options.firstPartyHostnames
                       ELSE <<(<<"*", ".">> \o getRootDomain(args.mainResource.url))>>
          IN  ret = thirdPartyLoop([size |-> 0, count |-> 0], args.networkRecords, hosts)

(***************************************************************************)
(* Properties of the validation of the entries of a budget.                *)
(***************************************************************************)
BudgetLists == {"resourceSizes", "resourceCounts", "timings"}

\* the raw configuration has an entry, in one of the lists in lists of one of
\* its budgets, whose property key satisfies the test bad
HasEntryWith(json, lists, key, badTypes) ==
    /\ json.t = "array"
    /\ \E i \in 1..Len(json.items) :
          /\ json.items[i].t = "object"
          /\ \E k \in lists :
                /\ Get(json.items[i], k).t = "array"
                /\ \E j \in 1..Len(Get(json.items[i], k).items) :
                      /\ Get(json.items[i], k).items[j].t = "object"
                      /\ Get(Get(json.items[i], k).items[j], key).t \in badTypes

\* C11: initializeBudget fails for every raw configuration in which some
\* resourceSizes, resourceCounts or timings entry has a budget that is not a
\* finite number (a string, null, missing, NaN or an infinity), and for every
\* timings entry whose tolerance is present but not a finite number.
C11_NonFiniteBudgetRejected ==
    (/\ Done("initializeBudget")
     /\ args.budgetJson # Undefined
     /\ \/ HasEntryWith(args.budgetJson, BudgetLists, "budget",
                         {"string", "null", "undefined", "NaN", "Infinity"})
        \/ HasEntryWith(args.budgetJson, {"timings"}, "tolerance",
                         {"string", "null", "NaN", "Infinity"}))
    => thrown # NoError

\* an infinite budget, and a tolerance that is NaN, have been rejected
C11_Witness ==
    /\ Done("initializeBudget")
    /\ args.budgetJson # Undefined
    /\ \/ HasEntryWith(args.budgetJson, {"resourceSizes"}, "budget", {"Infinity"})
       \/ HasEntryWith(args.budgetJson, {"timings"}, "tolerance", {"NaN"})
    /\ includes(thrown, <<"Invalid">>)

\* new Budgets(budgetsJSON) is given budgets that are well formed but for the
\* values of budget and tolerance: no property, resource type or metric that
\* would be rejected before them
WellFormedButForValues(budgetsJSON) ==
    /\ Get(budgetsJSON, "budgets").t = "array"
    /\ \A i \in 1..Len(Get(budgetsJSON, "budgets").items) :
          LET b == Get(budgetsJSON, "budgets").items[i]
          IN  /\ b.t = "object"
              /\ RestKeys(b, BudgetLists) = {}
              /\ \A k \in BudgetLists :
                    \/ Get(b, k) = Undefined
                    \/ /\ Get(b, k).t = "array"
                       /\ \A j \in 1..Len(Get(b, k).items) :
                             LET e == Get(b, k).items[j]
                             IN  /\ e.t = "object"
                                 /\ IF k = "timings"
                                    THEN /\ RestKeys(e, {"metric", "budget", "tolerance"}) = {}
                                         /\ Get(e, "metric").t = "string"
                                         /\ Get(e, "metric").s \in Budgets_validTimingMetrics
                                    ELSE /\ RestKeys(e, {"resourceType", "budget"}) = {}
                                         /\ Get(e, "resourceType").t = "string"
                                         /\ Get(e, "resourceType").s \in validResourceTypes

\* C12: the Budgets constructor throws an error containing "Invalid budget"
\* whenever a resource or timing entry's budget is not a number (any string,
\* numeric strings included, null or a boolean), and an error containing
\* "Invalid tolerance" whenever a supplied tolerance is not a number; when
\* both occur, one of the two errors is thrown.
C12_InvalidBudgetRejected ==
    (Done("Budgets") /\ WellFormedButForValues(args.budgetsJSON))
    => LET badBudget == HasEntryWith(Get(args.budgetsJSON, "budgets"), BudgetLists, "budget",
                                     {"string", "null", "boolean", "undefined"})
           badTolerance == HasEntryWith(Get(args.budgetsJSON, "budgets"), {"timings"},
                                        "tolerance", {"string", "null", "boolean"})
       IN  /\ (badBudget /\ ~badTolerance) => includes(thrown, <<"Invalid", "budget">>)
           /\ (badTolerance /\ ~badBudget) => includes(thrown, <<"Invalid", "tolerance">>)
           /\ (badBudget /\ badTolerance)
              => \/ includes(thrown, <<"Invalid", "budget">>)
                 \/ includes(thrown, <<"Invalid", "tolerance">>)

\* the name of the property of an entry of list k that must not repeat
NameKey(k) == IF k = "timings" THEN "metric" ELSE "resourceType"

\* the raw configuration is valid but, possibly, for entries of one list of
\* one budget that share their resource type or metric
WellFormedButForDuplicates(json) ==
    /\ json.t = "array"
    /\ \A i \in 1..Len(json.items) :
          LET b == json.items[i]
          IN  /\ b.t = "object"
              /\ RestKeys(b, BudgetLists \cup {"path"}) = {}
              /\ ~validatePath(Get(b, "path")).threw
              /\ \A k \in BudgetLists :
                    \/ Get(b, k) = Undefined
                    \/ /\ Get(b, k).t = "array"
                       /\ \A j \in 1..Len(Get(b, k).items) :
                             LET e == Get(b, k).items[j]
                             IN  /\ e.t = "object"
                                 /\ Get(e, "budget").t = "number"
                                 /\ Get(e, NameKey(k)).t = "string"
                                 /\ IF k = "timings"
                                    THEN /\ RestKeys(e, {"metric", "budget", "tolerance"}) = {}
                                         /\ Get(e, "tolerance").t \in {"undefined", "number"}
                                         /\ Get(e, "metric").s \in validTimingMetrics
                                    ELSE /\ RestKeys(e, {"resourceType", "budget"}) = {}
                                         /\ Get(e, "resourceType").s \in validResourceTypes

\* some list of some budget names the same resource type, or metric, twice
HasDuplicate(json) ==
    \E i \in 1..Len(json.items) : \E k \in BudgetLists :
        /\ Get(json.items[i], k) # Undefined
        /\ \E j1, j2 \in 1..Len(Get(json.items[i], k).items) :
              /\ j1 < j2
              /\ Get(Get(json.items[i], k).items[j1], NameKey(k))
                 = Get(Get(json.items[i], k).items[j2], NameKey(k))

\* some resource type is named by two lists of one budget, or by two budgets
SharesTypeAcrossLists(json) ==
    \E i1, i2 \in 1..Len(json.items) : \E k1, k2 \in {"resourceSizes", "resourceCounts"} :
        /\ <<i1, k1>> # <<i2, k2>>
        /\ Get(json.items[i1], k1) # Undefined
        /\ Get(json.items[i2], k2) # Undefined
        /\ \E j1 \in 1..Len(Get(json.items[i1], k1).items) :
           \E j2 \in 1..Len(Get(json.items[i2], k2).items) :
              Get(Get(json.items[i1], k1).items[j1], "resourceType")
              = Get(Get(json.items[i2], k2).items[j2], "resourceType")

\* C13: initializeBudget fails whenever one budget lists the same
\* resourceType twice within its resourceSizes or within its resourceCounts,
\* or the same metric twice within its timings; the same resourceType once in
\* resourceSizes and once in resourceCounts of one budget, or in two
\* different budgets, does not cause a failure.
C13_DuplicatesWithinOneList ==
    (/\ Done("initializeBudget")
     /\ args.budgetJson # Undefined
     /\ WellFormedButForDuplicates(args.budgetJson))
    => IF HasDuplicate(args.budgetJson)
       THEN includes(thrown, <<"has", "duplicate", "entry">>)
       ELSE thrown = NoError

\* a configuration of two budgets with a repeated type has been rejected
C13_Witness ==
    /\ Done("initializeBudget")
    /\ args.budgetJson # Undefined
    /\ WellFormedButForDuplicates(args.budgetJson)
    /\ HasDuplicate(args.budgetJson)
    /\ Len(args.budgetJson.items) = 2
    /\ thrown # NoError

\* C13, the case that is accepted: a configuration that names a resource type
\* in two lists, and in two budgets, has validated
C13_SharedTypeAccepted ==
    /\ Done("initializeBudget")
    /\ args.budgetJson # Undefined
    /\ WellFormedButForDuplicates(args.budgetJson)
    /\ ~HasDuplicate(args.budgetJson)
    /\ SharesTypeAcrossLists(args.budgetJson)
    /\ Len(args.budgetJson.items) = 2
    /\ thrown = NoError

(***************************************************************************)
(* Properties of the objects of Budget.initializeBudget.                   *)
(***************************************************************************)
\* the references a cell holds
RefsOf(cell) ==
    IF cell.t = "object"
    THEN {cell.props[k] : k \in {x \in DOMAIN cell.props : cell.props[x].t = "ref"}}
    ELSE {cell.items[i] : i \in {x \in 1..Len(cell.items) : cell.items[x].t = "ref"}}

RECURSIVE Reachable(_, _)
\* the objects that can be reached from the reference ref
Reachable(h, ref) == {ref} \cup UNION {Reachable(h, r) : r \in RefsOf(h[ref])}

\* the caller's objects as they were before the call
InputBefore == Allocate(args.budgetJson, "input")

\* C14: initializeBudget never modifies the caller's raw configuration:
\* after the call, whether it returned or threw, every object of the input
\* holds what it held before, and no object of the input can be reached from
\* the returned budgets.
C14_InputNotModified ==
    Done("initializeBudget")
    => /\ \A id \in DOMAIN InputBefore : id \in DOMAIN heap /\ heap[id] = InputBefore[id]
       /\ thrown = NoError => Reachable(heap, retRef) \cap DOMAIN InputBefore = {}

\* a configuration with lists has validated, and one has been rejected after
\* its first budget was built
C14_Witness ==
    /\ Done("initializeBudget")
    /\ Cardinality(DOMAIN InputBefore) >= 4
    /\ \/ thrown = NoError /\ Cardinality(Reachable(heap, retRef)) >= 4
       \/ thrown # NoError /\ Len(args.budgetJson.items) = 2 /\ retRef = Undefined

(***************************************************************************)
(* Properties of the third-party summary.                                  *)
(***************************************************************************)
\* hostname is D or a subdomain of D
IsDomainOrSubdomain(hostname, D) == hostname = D \/ endsWith(hostname, <<".">> \o D)

\* the documented reading of firstPartyHostnames: an entry without the
\* prefix '*.' names one host, an entry *.D names D and its subdomains
IsFirstPartyAsDocumented(hostname, hostExps) ==
    \E i \in 1..Len(hostExps) :
        IF startsWith(hostExps[i], <<"*", ".">>)
        THEN IsDomainOrSubdomain(hostname, slice(hostExps[i], 2))
        ELSE hostname = hostExps[i]

RECURSIVE ThirdPartyAsDocumented(_, _)
\* count and size of the records, data URLs apart, whose host is not first
\* party by the documented reading
ThirdPartyAsDocumented(records, hostExps) ==
    IF records = <<>> THEN [size |-> 0, count |-> 0]
    ELSE LET rest == ThirdPartyAsDocumented(Tail(records), hostExps)
             hostname == URL(Head(records).url).hostname
         IN  IF hostname = <<>> \/ IsFirstPartyAsDocumented(hostname, hostExps) THEN rest
             ELSE [size |-> rest.size + Head(records).transferSize, count |-> rest.count + 1]

\* the call's governing budget sets options.firstPartyHostnames
HasFirstPartyHostnames(budget) ==
    /\ budget # Undefined
    /\ "options" \in DOMAIN budget
    /\ "firstPartyHostnames" \in DOMAIN budget.options

\* C15: given a firstPartyHostnames list, a hostname is first-party exactly
\* when some entry without the prefix '*.' equals it, or some entry *.D has D
\* equal to the hostname or the hostname a subdomain of D: the summary counts
\* exactly the records of the other hosts.
C15_HostnameClassification ==
    (/\ Done("ThirdPartySummary.summarize")
     /\ HasFirstPartyHostnames(getMatchingBudget(args.budgets, args.mainResource.url)))
    => ret = ThirdPartyAsDocumented(
                 args.networkRecords,
                 getMatchingBudget(args.budgets, args.mainResource.url)
                     .options.firstPartyHostnames)

\* C16: when no budget governs the page, or the governing budget has no
\* options.firstPartyHostnames, a record is third-party exactly when its
\* hostname is neither the main resource's root domain nor a subdomain of it.
C16_OriginFallback ==
    (/\ Done("ThirdPartySummary.summarize")
     /\ ~HasFirstPartyHostnames(getMatchingBudget(args.budgets, args.mainResource.url)))
    => ret = ThirdPartyAsDocumented(
                 args.networkRecords,
                 <<(<<"*", ".">> \o getRootDomain(args.mainResource.url))>>)

(***************************************************************************)
(* Properties of the resource summary.                                     *)
(***************************************************************************)
IsDataUrl(record) == record.url.protocol = "data:"

IsNotDataUrl(record) == ~IsDataUrl(record)

IsFavicon(record) ==
    determineResourceType(record) = "other"
    /\ endsWith(Href(record.url), <<"/", "favicon.ico">>)

\* C17: a network record whose URL is a data URL contributes zero to every
\* aggregate: the resource summary and the third-party summary of a list of
\* records are those of the list without its data URLs.
C17_DataUrlsContributeZero ==
    /\ Done("ResourceSummary.summarize")
       => ret = summarize(SelectSeq(args.networkRecords, IsNotDataUrl))
    /\ Done("ThirdPartySummary.summarize")
       => ret = ThirdPartySummary_summarize(args.mainResource,
                                            SelectSeq(args.networkRecords, IsNotDataUrl),
                                            args.budgets)

ResourceTypeBuckets == {"stylesheet", "image", "media", "font", "script", "document", "other"}

RECURSIVE SumOver(_, _)
\* the sum of f over the set S
SumOver(f, S) ==
    IF S = {} THEN 0
    ELSE LET x == CHOOSE y \in S : TRUE IN f[x] + SumOver(f, S \ {x})

\* C18: after summarizing a list of network records, total.count is the sum
\* of the counts of the seven resource-type buckets and total.size the sum of
\* their sizes, and the last record of the list, unless it is skipped, has
\* added 1 and its transferSize to exactly one of the seven buckets and to
\* the total.
C18_TotalIsSumOfBuckets ==
    Done("ResourceSummary.summarize")
    => /\ ret.total.count = SumOver([t \in ResourceTypeBuckets |-> ret[t].count],
                                    ResourceTypeBuckets)
       /\ ret.total.size = SumOver([t \in ResourceTypeBuckets |-> ret[t].size],
                                   ResourceTypeBuckets)
       /\ args.networkRecords # <<>>
          => LET last == args.networkRecords[Len(args.networkRecords)]
                 before == summarize(SubSeq(args.networkRecords, 1,
                                            Len(args.networkRecords) - 1))
             IN  IF IsFavicon(last)
                 THEN ret = before
                 ELSE \E t \in ResourceTypeBuckets :
                         ret = [before EXCEPT ![t].count = @ + 1,
                                              ![t].size = @ + last.transferSize,
                                              !["total"].count = @ + 1,
                                              !["total"].size = @ + last.transferSize]

\* two records of different types and a skipped one have been summarized
C18_Witness ==
    /\ Done("ResourceSummary.summarize")
    /\ Len(args.networkRecords) = MaxRecords
    /\ \E i \in 1..Len(args.networkRecords) : IsFavicon(args.networkRecords[i])
    /\ ret.total.count = MaxRecords - 1
    /\ ret.total.size > 0

\* the labels of the rows the table of the resource summary should have
NineLabels ==
    {"Total", "Document", "Script", "Stylesheet", "Image", "Media", "Font", "Other",
     "Third-party"}

\* C19: the table of the resource summary has a row for every resource type,
\* whether or not the page has resources of that type: stylesheet, image,
\* media, font, script, document, other, total and third-party, nine rows in
\* all; a type with no records has count 0 and size 0.
C19_NineRows ==
    Done("ResourceSummary.audit")
    => /\ Len(ret.details.items) = 9
       /\ \A label \in NineLabels :
             \E i \in 1..Len(ret.details.items) : ret.details.items[i].label = label
       /\ \A i \in 1..Len(ret.details.items) :
             (\A j \in 1..Len(args.networkRecords) :
                 /\ strMappings(determineResourceType(args.networkRecords[j]))
                    # ret.details.items[i].label
                 /\ ret.details.items[i].label \notin {"Total", "Third-party"})
             => ret.details.items[i].count = 0 /\ ret.details.items[i].size = 0

\* the raw resource types that have a bucket of their own, with its name
MappedRawTypes ==
    [Stylesheet |-> "stylesheet", Image |-> "image", Media |-> "media", Font |-> "font",
     Script |-> "script", Document |-> "document"]

HasMappedRawType(record) ==
    \E raw \in DOMAIN MappedRawTypes : record.resourceType = Str(raw)

BucketOf(record) ==
    IF HasMappedRawType(record)
    THEN MappedRawTypes[CHOOSE raw \in DOMAIN MappedRawTypes : record.resourceType = Str(raw)]
    ELSE "other"

\* the record is not one the summary is said to skip: its raw type is
\* mapped, or its URL does not end with '/favicon.ico'
IsCounted(record) ==
    HasMappedRawType(record) \/ ~IsSuffixOf(<<"/", "favicon.ico">>, Href(record.url))

\* C25: summarize skips a record exactly when its raw type is absent or
\* unmapped and its URL ends with '/favicon.ico': every bucket and the total
\* count the other records and only them, so a '/favicon.ico' with a mapped
\* raw type is counted in its bucket and in the total.
C25_FaviconSkip ==
    Done("ResourceSummary.summarize")
    => LET counted == SelectSeq(args.networkRecords, IsCounted)
           indexes(bucket) == {i \in 1..Len(counted) :
                                  bucket = "total" \/ BucketOf(counted[i]) = bucket}
       IN  \A bucket \in ResourceTypeBuckets \cup {"total"} :
              /\ ret[bucket].count = Cardinality(indexes(bucket))
              /\ ret[bucket].size = SumOver([i \in indexes(bucket) |-> counted[i].transferSize],
                                            indexes(bucket))

\* a '/favicon.ico' of type Image has been counted and one without a mapped
\* type has been skipped
C25_Witness ==
    /\ Done("ResourceSummary.summarize")
    /\ Len(args.networkRecords) = 2
    /\ \E i \in 1..2 : /\ args.networkRecords[i].resourceType = Str("Image")
                       /\ IsSuffixOf(<<"/", "favicon.ico">>, Href(args.networkRecords[i].url))
    /\ \E i \in 1..2 : ~IsCounted(args.networkRecords[i])
    /\ ret.total.count = 1
    /\ ret.image.count = 1

(***************************************************************************)
(* Properties of the LightWallet audit.                                    *)
(***************************************************************************)
\* the aggregated byte size of a resource type, 0 when no record has it
ActualBytes(type) ==
    IF type \in DOMAIN args.bytesSummary THEN args.bytesSummary[type] ELSE 0

\* the row the size budget entry should get
PageWeightRow(entry) ==
    [id |-> entry.resourceType,
     label |-> entry.resourceType,
     budget |-> entry.budget * 1024,
     actual |-> ActualBytes(entry.resourceType),
     difference |-> ActualBytes(entry.resourceType) - entry.budget * 1024,
     score |-> IF ActualBytes(entry.resourceType) > entry.budget * 1024
               THEN "fail" ELSE "pass"]

\* C20: for every size budget entry, pageWeightAnalysis produces a row whose
\* budget is the declared kilobyte value times 1024, whose actual is the
\* aggregated byte size of that resource type (0 when no record has that
\* type), whose difference is actual minus the budget in bytes, and whose
\* verdict is fail exactly when actual is strictly greater than the budget
\* in bytes and pass otherwise.
C20_PageWeightVerdict ==
    Done("LightWallet.pageWeightAnalysis")
    => /\ Len(ret) = Len(args.pageWeightBudgets)
       /\ \A i \in 1..Len(args.pageWeightBudgets) :
             Cardinality({j \in 1..Len(ret) : ret[j] = PageWeightRow(args.pageWeightBudgets[i])})
             = Cardinality({j \in 1..Len(args.pageWeightBudgets) :
                               args.pageWeightBudgets[j] = args.pageWeightBudgets[i]})

\* a page weight equal to its budget has passed next to one that failed
C20_Witness ==
    /\ Done("LightWallet.pageWeightAnalysis")
    /\ \E i \in 1..Len(ret) :
          ret[i].actual > 0 /\ ret[i].actual = ret[i].budget /\ ret[i].score = "pass"
    /\ \E i \in 1..Len(ret) : ret[i].actual > ret[i].budget /\ ret[i].score = "fail"

\* C21: the verdict of a timing row is pass when actual < budget, average
\* when budget <= actual < budget + tolerance, and fail otherwise, an absent
\* tolerance counting as 0; the row's difference is actual minus budget.
C21_TimingVerdict ==
    (Done("LightWallet.auditTimingMetric") /\ thrown = NoError)
    => LET actual == args.timingMeasurement
           budget == args.timingBudget.budget
           tolerance == IF "tolerance" \in DOMAIN args.timingBudget
                        THEN args.timingBudget.tolerance ELSE 0
       IN  /\ ret.score \in {"pass", "average", "fail"}
           /\ ret.score = "pass" <=> actual < budget
           /\ ret.score = "average" <=> (budget <= actual /\ actual < budget + tolerance)
           /\ ret.difference = actual - budget
           /\ ret.actual = actual /\ ret.budget = budget

\* a measurement equal to a budget without tolerance fails
C21_Witness ==
    /\ Done("LightWallet.auditTimingMetric")
    /\ thrown = NoError
    /\ "tolerance" \notin DOMAIN args.timingBudget
    /\ args.timingMeasurement = args.timingBudget.budget
    /\ ret.score = "fail"
    /\ ret.difference = 0

\* the rows of every budget of the audit's product
AllRows ==
    {row \in UNION {{rows[j] : j \in 1..Len(rows)} :
                        rows \in {scoredRows(ret.details)[i] : i \in 1..Len(ret.details)}} :
        TRUE}

\* the timing rows in the tolerance window: budget <= actual < budget + tolerance
TimingRowsInTolerance ==
    {row \in UNION {{d.timings[j] : j \in 1..Len(d.timings)} :
                        d \in {ret.details[i] : i \in {k \in 1..Len(ret.details) :
                                   "timings" \in DOMAIN ret.details[k]}}} :
        /\ "tolerance" \in DOMAIN row
        /\ row.budget <= row.actual
        /\ row.actual < row.budget + row.tolerance}

\* C22: the roll-up of the audit over the timing, request and page-weight
\* rows of every budget is fail if any row failed; otherwise it is the warn
\* state if a timing row is in its tolerance window; otherwise it is pass.
C22_RollUp ==
    Done("LightWallet.audit")
    => IF \E row \in AllRows : row.score = "fail" THEN ret.displayValue = "fail"
       ELSE IF TimingRowsInTolerance # {} THEN ret.displayValue \in {"warn", "average"}
       ELSE ret.displayValue = "pass"

\* C24: whatever the interleaving of the evaluations of the budgets, each
\* result reports the settings of its own budget and the timings of each
\* budget are those simulated with that budget's CPU slowdown multiplier,
\* also when two budgets share a connectionType and differ in cpuThrottling.
C24_IndependentEvaluations ==
    Done("LightWallet.audit")
    => \A i \in 1..Len(args.budgets) :
          LET budget == args.budgets[i]
              result == ret.details[i]
          IN  /\ result.cpuThrottling = budget.cpuThrottling
              /\ result.connectionType.networkLabel = budget.connectionType
              /\ "timings" \in DOMAIN budget
                 => /\ result.connectionType.cpuSlowdownMultiplier = Num(budget.cpuThrottling)
                    /\ \A j \in 1..Len(budget.timings) :
                          \E k \in 1..Len(result.timings) :
                              /\ result.timings[k].id = timingMetricIds[budget.timings[j].metric].id
                              /\ result.timings[k].actual =
                                     args.simulated[budget.timings[j].metric]
                                                   [budget.cpuThrottling]

(***************************************************************************)
(* Properties of the tables of the resource-budget audit.                  *)
(***************************************************************************)
\* no budget is handed to the audit's tables: context.settings.budgets is
\* absent or empty
NoBudgetApplies ==
    \/ args.budgets \in {Null, Undefined}
    \/ args.budgets.items = <<>>

\* C23: in the table built when no budget applies, the total row is first,
\* the third-party row, when there is one, is last whatever its size, and
\* the rows in between are in descending order of size.
C23_DefaultTableOrder ==
    (Done("ResourceBudget.audit") /\ NoBudgetApplies)
    => LET items == ret.details.items
           n == Len(items)
           between == {i \in 2..n : items[i].resourceType # "third-party"}
       IN  /\ n >= 1
           /\ items[1].resourceType = "total"
           /\ \A i \in 1..n : items[i].resourceType = "third-party" => i = n
           /\ \A i, j \in between : i < j => items[i].size >= items[j].size

\* the entry of the budget's list for the type, as a set of at most one
EntriesFor(list, type) ==
    IF list \in DOMAIN args.budget
    THEN {args.budget[list][i] : i \in {j \in 1..Len(args.budget[list]) :
                                           args.budget[list][j].resourceType = type}}
    ELSE {}

\* row.sizeOverBudget || 0
SizeOverBudgetOrZero(row) ==
    IF row.sizeOverBudget = Undefined THEN 0 ELSE row.sizeOverBudget.n

\* what the claim says of the rows the table has, whatever types they are of
RowsAsClaimed ==
    /\ \A i \in 1..Len(ret) :
          LET row == ret[i]
              sizeBudgets == EntriesFor("resourceSizes", row.resourceType)
              countBudgets == EntriesFor("resourceCounts", row.resourceType)
          IN  /\ row.sizeOverBudget # Undefined
                 <=> \E b \in sizeBudgets : row.size > b.budget.n * 1024
              /\ \A b \in sizeBudgets :
                    row.size > b.budget.n * 1024
                    => row.sizeOverBudget = Num(row.size - b.budget.n * 1024)
              /\ row.countOverBudget # Undefined
                 <=> \E b \in countBudgets : row.requestCount > b.budget.n
    /\ \A i, j \in 1..Len(ret) :
          i < j => SizeOverBudgetOrZero(ret[i]) >= SizeOverBudgetOrZero(ret[j])

\* C26: budgetTable has a row for a resource type exactly when the budget has
\* a resourceSizes or resourceCounts entry for the type; sizeOverBudget is
\* defined exactly when a size budget exists and size > budget * 1024, and is
\* then size - budget * 1024; countOverBudget is defined exactly when a count
\* budget exists and requestCount > budget; the rows are in descending order
\* of sizeOverBudget, undefined counting as 0.
C26_BudgetTable ==
    Done("ResourceBudget.budgetTable")
    => /\ \A type \in validResourceTypes :
             (\E i \in 1..Len(ret) : ret[i].resourceType = type)
             <=> (EntriesFor("resourceSizes", type) # {}
                  \/ EntriesFor("resourceCounts", type) # {})
       /\ RowsAsClaimed

\* the same, for the resource types the summary of the page has an entry for
C26_BudgetTableOfSummaryTypes ==
    Done("ResourceBudget.budgetTable")
    => /\ \A type \in validResourceTypes \ {"third-party"} :
             (\E i \in 1..Len(ret) : ret[i].resourceType = type)
             <=> (EntriesFor("resourceSizes", type) # {}
                  \/ EntriesFor("resourceCounts", type) # {})
       /\ RowsAsClaimed

(***************************************************************************)
(* Relations between calls.                                                *)
(***************************************************************************)
\* C27: the trailing '$' never widens a pattern: when a URL matches P$, for
\* a valid pattern P without '$', it matches P as well, also when P has a
\* wildcard.
C27_AnchorNeverWidens ==
    (/\ Done("urlMatchesPattern")
     /\ endsWith(args.pattern, <<"$">>)
     /\ ~validatePath(Str(sliceLast(args.pattern))).threw
     /\ ret = TRUE)
    => urlMatchesPattern(args.url, sliceLast(args.pattern))

\* the same, for the patterns without a wildcard
C27_AnchorNeverWidensWithoutWildcard ==
    (/\ Done("urlMatchesPattern")
     /\ endsWith(args.pattern, <<"$">>)
     /\ ~HasChar(args.pattern, "*")
     /\ ~validatePath(Str(sliceLast(args.pattern))).threw
     /\ ret = TRUE)
    => urlMatchesPattern(args.url, sliceLast(args.pattern))

\* C28: the third-party aggregate of a list of network records never exceeds
\* the total bucket of the resource summary of the same records, in count
\* and in size.
C28_ThirdPartyWithinTotal ==
    Done("ThirdPartySummary.summarize")
    => /\ ret.count <= summarize(args.networkRecords).total.count
       /\ ret.size <= summarize(args.networkRecords).total.size


(***************************************************************************)
(* Properties of the question about error reporting.                       *)
(***************************************************************************)
\* the calls of askPermission alone, with the scheduling of the event loop:
\* a timer that is pending fires, and a function whose awaited promise is
\* settled is resumed; nothing makes the user answer
InitCli == op = "askPermission" /\ Init

NextCli ==
    \/ AskPermissionCall
    \/ PromptAnswer
    \/ PromptTimeout
    \/ AskPermissionResume

CliSpec ==
    /\ InitCli
    /\ [][NextCli]_vars
    /\ WF_vars(PromptTimeout)
    /\ WF_vars(AskPermissionResume)

Began(i) == i <= Len(calls)

\* call i found no boolean in the store and called prompt()
Prompted(i) == Began(i) /\ calls[i].read.t # "boolean"

Returned(i) == Began(i) /\ calls[i].pc = "returned"

\* no call of askPermission began while another was waiting for its answer:
\* a second call that prompts has read the store before the first wrote it
OneCallAtATime == Cardinality({i \in 1..Len(calls) : Prompted(i)}) <= 1

C29_StoredIsReturned ==
    \A i \in 1..Len(calls) :
        /\ ~Prompted(i) =>
              /\ calls[i].ui = "none"
              /\ calls[i].timeout = "none"
              /\ calls[i].race = Undefined
              /\ Returned(i)
              /\ calls[i].ret = calls[i].read
        /\ (Prompted(i) /\ Returned(i)) =>
              /\ calls[i].ret.t = "boolean"
              /\ calls[i].ret = calls[i].race

C29_StoresBeforeReturning ==
    \A i \in 1..Len(calls) :
        (~Returned(i) /\ Returned(i)' /\ Prompted(i)) => configstore' = calls'[i].ret

C29_LaterCallsDoNotPrompt ==
    (Len(calls') > Len(calls) /\ \E i \in 1..Len(calls) : Returned(i)) =>
        LET j == Len(calls')
        IN  /\ calls'[j].pc = "returned"
            /\ calls'[j].ret = configstore
            /\ calls'[j].ui = "none"

C29_PreferenceKept == configstore.t = "boolean" => configstore' = configstore

\* C29: askPermission does not prompt when a boolean preference is stored and
\* returns the stored value; else it stores the boolean outcome of the prompt
\* before returning it, every call after that returns the stored value
\* without prompting, and the stored preference never changes once it is a
\* boolean
C29_AskPermission ==
    /\ []C29_StoredIsReturned
    /\ [][/\ C29_StoresBeforeReturning
          /\ C29_LaterCallsDoNotPrompt
          /\ C29_PreferenceKept]_vars

\* what holds of askPermission: all of the above as long as no call begins
\* while another waits for its answer
C29_AskPermissionOneCallAtATime ==
    /\ []C29_StoredIsReturned
    /\ [][/\ C29_StoresBeforeReturning
          /\ C29_LaterCallsDoNotPrompt
          /\ OneCallAtATime' => C29_PreferenceKept]_vars

C30_Outcome ==
    \A i \in 1..Len(calls) :
        Prompted(i) =>
            LET call == calls[i]
            IN  /\ call.race \in {Undefined, Bool(TRUE), Bool(FALSE)}
                /\ isNonInteractive(call.isTTY, call.CI) =>
                      /\ call.race = Bool(FALSE)
                      /\ call.ui = "none"
                      /\ call.timeout = "none"
                      /\ ~call.warned
                /\ call.timeout = "pending" =>
                      /\ call.race = Undefined
                      /\ call.ui = "open"
                      /\ ~call.warned
                /\ call.timeout = "cleared" =>
                      /\ call.answer # Undefined
                      /\ call.race = call.answer
                      /\ call.ui = "answered"
                      /\ ~call.warned
                /\ call.timeout = "fired" =>
                      /\ call.race = Bool(FALSE)
                      /\ call.ui = "closed"
                      /\ call.warned

C30_Settled ==
    \A i \in 1..Len(calls) :
        /\ calls[i].race # Undefined => calls'[i].race = calls[i].race
        /\ calls[i].timeout = "cleared" => calls'[i].timeout = "cleared"

\* C30: prompt() always resolves in the end, with one boolean that never
\* changes: false at once and without a question when stdout is no TTY or CI
\* is set; the answer when it comes before the timer fires, and then the
\* timer is cleared, the UI is not closed and no warning is logged; false
\* when the timer fires, whatever is answered later
C30_PromptResolves ==
    /\ []C30_Outcome
    /\ [][C30_Settled]_vars
    /\ \A i \in 1..MaxCalls : Prompted(i) ~> (Prompted(i) /\ calls[i].race.t = "boolean")

\* a question answered with yes before the timer fired, and askPermission
\* returned
C30_Witness ==
    \E i \in 1..Len(calls) :
        /\ Prompted(i)
        /\ calls[i].timeout = "cleared"
        /\ calls[i].race = Bool(TRUE)
        /\ Returned(i)

====
